---------------------------- MODULE Spec2Model ----------------------------
(* Topology builder (src/src/network_topology.py) and validator engine    *)
(* (src/src/validator.py) as a state machine.                             *)
(*                                                                        *)
(* Python dicts are modelled as sequences of [key, val] entries so that   *)
(* insertion order, which the code iterates in, is part of the state.     *)
(* Device ids are sequences of characters, so that the link id            *)
(* f"{a}-{b}" and the trailing character id[-1] are computed as the code  *)
(* computes them. Addresses and masks are 4-tuples of octets; the empty   *)
(* tuple stands for a missing (None) address.                             *)
EXTENDS Integers, Sequences, FiniteSets, TLC

VARIABLES
  devices,    \* NetworkTopology.devices
  links,      \* NetworkTopology.links
  lastInput,  \* the parsed files of the last build call
  nbuilds,    \* number of build calls so far
  validated,  \* whether validate_network_configuration has returned
  args,       \* the arguments of that call
  report,     \* the validation_results it returned
  summary,    \* what get_topology_summary gave for the export of the last build
  simDevices, \* NetworkSimulator.devices: the loaded devices, in dict order
  simPc,      \* where run_day1_simulation stands
  simIndex,   \* the device its current loop is at
  running,    \* NetworkDevice.running of each loaded device
  threadPc,   \* where each device thread stands
  logs,       \* NetworkDevice.logs of each loaded device
  simReport   \* the simulation_logs written by generate_simulation_report

analysisvars == <<devices, links, lastInput, nbuilds, validated, args, report, summary>>

simvars == <<simDevices, simPc, simIndex, running, threadPc, logs, simReport>>

vars == <<analysisvars, simvars>>

-----------------------------------------------------------------------------
(* Bounds *)

\* largest number of configuration files in the directory of a first build
MaxInput == 3
\* largest number of configuration files in a directory when a builder is reused
MaxRebuildInput == 2
\* largest number of build calls on a reused builder
MaxBuilds == 2
\* largest number of links a traffic summary reports on
MaxTrafficLinks == 1

-----------------------------------------------------------------------------
(* Python helpers *)

\* dict.get(key, default) on a record
Get(rec, k, d) == IF k \in DOMAIN rec THEN rec[k] ELSE d

\* the None of an optional integer field (vlan)
NoneInt == -1

\* the None / empty string of an optional address field
NoneAddr == <<>>

\* Python truthiness of an optional integer: None and 0 are falsy
TruthyInt(v) == v # NoneInt /\ v # 0

\* Python truthiness of an optional string
TruthyAddr(a) == a # NoneAddr

HasKey(d, k) == \E i \in DOMAIN d : d[i].key = k

Lookup(d, k) == d[CHOOSE i \in DOMAIN d : d[i].key = k].val

\* d[k] = v : an existing key keeps its position, a new key is appended
DictSet(d, k, v) ==
  IF HasKey(d, k)
  THEN [i \in DOMAIN d |-> IF d[i].key = k THEN [key |-> k, val |-> v] ELSE d[i]]
  ELSE Append(d, [key |-> k, val |-> v])

Values(d) == [i \in DOMAIN d |-> d[i].val]

Min(a, b) == IF a <= b THEN a ELSE b

RECURSIVE BitAnd(_, _)
\* a & b on non-negative integers
BitAnd(a, b) ==
  IF a = 0 \/ b = 0 THEN 0
  ELSE (a % 2) * (b % 2) + 2 * BitAnd(a \div 2, b \div 2)

-----------------------------------------------------------------------------
(* Topology builder *)

\* f"{a}-{b}"
LinkId(a, b) == a \o <<"-">> \o b

\* address AND mask, octet by octet
CalculateSubnet(ip, mask) == [i \in 1..4 |-> BitAnd(ip[i], mask[i])]

\* default of interface.get('bandwidth', ...) in _build_connections
TopologyDefaultBandwidth == 100

\* the entry appended to subnet_devices[subnet] for one interface
SubnetMember(device_id, interface) ==
  [device_id |-> device_id,
   interface |-> interface.name,
   ip_address |-> interface.ip_address,
   bandwidth  |-> Get(interface, "bandwidth", TopologyDefaultBandwidth)]

\* whether _build_connections groups this interface
HasSubnet(interface) ==
  /\ TruthyAddr(Get(interface, "ip_address", NoneAddr))
  /\ TruthyAddr(Get(interface, "subnet_mask", NoneAddr))

RECURSIVE GroupInterfaces(_, _, _, _)
\* the inner loop over one device's interfaces, from interface i on
GroupInterfaces(sd, device_id, ifs, i) ==
  IF i > Len(ifs) THEN sd
  ELSE IF HasSubnet(ifs[i])
  THEN LET subnet == CalculateSubnet(ifs[i].ip_address, ifs[i].subnet_mask)
           old == IF HasKey(sd, subnet) THEN Lookup(sd, subnet) ELSE <<>>
       IN GroupInterfaces(
            DictSet(sd, subnet, Append(old, SubnetMember(device_id, ifs[i]))),
            device_id, ifs, i + 1)
  ELSE GroupInterfaces(sd, device_id, ifs, i + 1)

RECURSIVE GroupDevices(_, _, _)
\* subnet_devices after the grouping loop, from device i on
GroupDevices(sd, devs, i) ==
  IF i > Len(devs) THEN sd
  ELSE GroupDevices(
         GroupInterfaces(sd, devs[i].key, Get(devs[i].val, "interfaces", <<>>), 1),
         devs, i + 1)

SubnetDevices(devs) == GroupDevices(<<>>, devs, 1)

\* _add_link taking the first endpoint's bandwidth as the link capacity
AddLink_FirstEndpointBandwidth(lk, device1, device2, subnet) ==
  DictSet(lk, LinkId(device1.device_id, device2.device_id),
          [device1 |-> device1,
           device2 |-> device2,
           subnet |-> subnet,
           bandwidth_mbps |-> device1.bandwidth,
           current_utilization |-> 0])

\* _add_link: self.links[link_id] = {...}
AddLink(lk, device1, device2, subnet) ==
  DictSet(lk, LinkId(device1.device_id, device2.device_id),
          [device1 |-> device1,
           device2 |-> device2,
           subnet |-> subnet,
           bandwidth_mbps |-> Min(device1.bandwidth, device2.bandwidth),
           current_utilization |-> 0])

RECURSIVE PairLinks(_, _, _, _, _)
\* the two nested loops over one subnet group, at pair (i, j)
PairLinks(lk, members, subnet, i, j) ==
  IF i > Len(members) THEN lk
  ELSE IF j > Len(members) THEN PairLinks(lk, members, subnet, i + 1, i + 2)
  ELSE PairLinks(AddLink(lk, members[i], members[j], subnet),
                 members, subnet, i, j + 1)

RECURSIVE SubnetLinks(_, _, _)
\* the loop over subnet_devices.items(), from group g on
SubnetLinks(lk, sd, g) ==
  IF g > Len(sd) THEN lk
  ELSE IF Len(sd[g].val) > 1
  THEN SubnetLinks(PairLinks(lk, sd[g].val, sd[g].key, 1, 2), sd, g + 1)
  ELSE SubnetLinks(lk, sd, g + 1)

\* capacity of a switch management link
SwitchLinkBandwidth == 1000

\* _add_switch_link recording the link id as the second endpoint's device id
AddSwitchLink_IdAsEndpoint(lk, switch_id, device_id) ==
  IF ~HasKey(lk, LinkId(switch_id, device_id))
     /\ ~HasKey(lk, LinkId(device_id, switch_id))
  THEN Append(lk, [key |-> LinkId(switch_id, device_id),
                   val |-> [device1 |-> [device_id |-> switch_id, interface |-> "mgmt"],
                            device2 |-> [device_id |-> LinkId(switch_id, device_id),
                                         interface |-> "mgmt"],
                            bandwidth_mbps |-> SwitchLinkBandwidth,
                            current_utilization |-> 0]])
  ELSE lk

\* _add_switch_link
AddSwitchLink(lk, switch_id, device_id) ==
  IF ~HasKey(lk, LinkId(switch_id, device_id))
     /\ ~HasKey(lk, LinkId(device_id, switch_id))
  THEN Append(lk, [key |-> LinkId(switch_id, device_id),
                   val |-> [device1 |-> [device_id |-> switch_id, interface |-> "mgmt"],
                            device2 |-> [device_id |-> device_id, interface |-> "mgmt"],
                            bandwidth_mbps |-> SwitchLinkBandwidth,
                            current_utilization |-> 0]])
  ELSE lk

\* the vlan ids of the device's interfaces that have one
DeviceVlans(device_config) ==
  LET ifs == Get(device_config, "interfaces", <<>>)
  IN {Get(ifs[i], "vlan", NoneInt) :
        i \in {j \in DOMAIN ifs : TruthyInt(Get(ifs[j], "vlan", NoneInt))}}

\* the ids of the vlans declared on the switch
SwitchVlans(switch_config) ==
  LET vl == Get(switch_config, "vlans", <<>>)
  IN {Get(vl[i], "id", NoneInt) : i \in DOMAIN vl}

\* _shares_vlan_segment
SharesVlanSegment(device_config, switch_vlans) ==
  DeviceVlans(device_config) \cap switch_vlans # {}

\* the guard of the attachment loop: the switch is device1 of no link yet
SwitchUnlinked(lk, switch_id) ==
  \A i \in DOMAIN lk : lk[i].val.device1.device_id # switch_id

\* id[-1]
LastChar(id) == id[Len(id)]

\* strategy 2 without the comparison of the trailing characters
NamingFallback_AnyRouter(switch_id, other_id, other_config) ==
  Get(other_config, "device_type", "None") = "router"

\* strategy 2: the candidate is a router with the switch's trailing character
NamingFallback(switch_id, other_id, other_config) ==
  /\ Get(other_config, "device_type", "None") = "router"
  /\ LastChar(switch_id) = LastChar(other_id)

\* one iteration of the inner loop of _connect_switches_to_segments
AttachStep(lk, switch_id, switch_config, other_id, other_config) ==
  IF other_id # switch_id /\ SwitchUnlinked(lk, switch_id)
  THEN IF SharesVlanSegment(other_config, SwitchVlans(switch_config))
       THEN AddSwitchLink(lk, switch_id, other_id)
       ELSE IF NamingFallback(switch_id, other_id, other_config)
       THEN AddSwitchLink(lk, switch_id, other_id)
       ELSE lk
  ELSE lk

RECURSIVE AttachSwitch(_, _, _, _)
\* the inner loop over self.devices.items() for one switch, from device j on
AttachSwitch(lk, devs, s, j) ==
  IF j > Len(devs) THEN lk
  ELSE AttachSwitch(
         AttachStep(lk, devs[s].key, devs[s].val, devs[j].key, devs[j].val),
         devs, s, j + 1)

RECURSIVE ConnectSwitchesToSegments(_, _, _)
\* the outer loop over the switches, from device s on
ConnectSwitchesToSegments(lk, devs, s) ==
  IF s > Len(devs) THEN lk
  ELSE IF Get(devs[s].val, "device_type", "None") = "switch"
  THEN ConnectSwitchesToSegments(AttachSwitch(lk, devs, s, 1), devs, s + 1)
  ELSE ConnectSwitchesToSegments(lk, devs, s + 1)

\* _build_connections: self.links after the call
BuildConnections(devs, lk) ==
  ConnectSwitchesToSegments(SubnetLinks(lk, SubnetDevices(devs), 1), devs, 1)

RECURSIVE RegisterDevices(_, _, _)
\* the loop of build_topology_from_configs over the parsed files
RegisterDevices(devs, input, i) ==
  IF i > Len(input) THEN devs
  ELSE RegisterDevices(DictSet(devs, input[i].device_name, input[i]), input, i + 1)

\* build_topology_from_configs: self.devices and self.links after the call.
\* Neither table is cleared: the call starts from the tables it finds.
BuildTopology(devs, lk, input) ==
  LET d2 == RegisterDevices(devs, input, 1)
  IN [devices |-> d2, links |-> BuildConnections(d2, lk)]

-----------------------------------------------------------------------------
(* Validator: rule results *)

\* what a rule call produces: a result dict, or an exception
Result(status, issues, suggestions) ==
  [raised |-> FALSE, status |-> status, issues |-> issues,
   suggestions |-> suggestions]

Raised(error) == [raised |-> TRUE, error |-> error]

\* a formatted string: its fixed text and the values formatted into it
Text(text, values) == [text |-> text, args |-> values]

\* any(issue['severity'] == sev for issue in issues)
AnySeverity(issues, sev) == \E i \in DOMAIN issues : issues[i].severity = sev

\* 'fail' if any critical issue, 'warning' if any issue, else 'pass'
SeverityStatus(issues) ==
  IF AnySeverity(issues, "critical") THEN "fail"
  ELSE IF issues # <<>> THEN "warning" ELSE "pass"

RECURSIVE FlattenInterfaces(_, _, _)
\* the (device, interface) pairs in the order of the nested loops
\* "for device_id, device_config in devices.items():
\*    for interface in device_config.get('interfaces', [])", from (i, j) on
FlattenInterfaces(devs, i, j) ==
  IF i > Len(devs) THEN <<>>
  ELSE LET ifs == Get(devs[i].val, "interfaces", <<>>)
       IN IF j > Len(ifs) THEN FlattenInterfaces(devs, i + 1, 1)
          ELSE <<[device |-> devs[i].key, config |-> devs[i].val,
                  interface |-> ifs[j]]>>
               \o FlattenInterfaces(devs, i, j + 1)

\* d[k].append(v) on a defaultdict(list)
DictAppend(d, k, v) ==
  DictSet(d, k, Append(IF HasKey(d, k) THEN Lookup(d, k) ELSE <<>>, v))

\* the key interface.get('vlan', 'default') yields for a missing vlan field
DefaultVlanKey == -2

RECURSIVE IpUsage_KeyedByAddress(_, _, _)
\* the collecting loop grouping by address alone, whatever the vlan
IpUsage_KeyedByAddress(usage, pairs, n) ==
  IF n > Len(pairs) THEN usage
  ELSE LET interface == pairs[n].interface
           ip == Get(interface, "ip_address", NoneAddr)
           vlan == Get(interface, "vlan", DefaultVlanKey)
       IN IF TruthyAddr(ip)
          THEN LET same == {g \in DOMAIN usage : usage[g].key[1] = ip}
                   key == IF same = {} THEN <<ip, vlan>>
                          ELSE usage[CHOOSE g \in same : TRUE].key
               IN IpUsage_KeyedByAddress(
                    DictAppend(usage, key,
                               [device |-> pairs[n].device,
                                interface |-> interface.name,
                                vlan |-> vlan]),
                    pairs, n + 1)
          ELSE IpUsage_KeyedByAddress(usage, pairs, n + 1)

RECURSIVE IpUsage(_, _, _)
\* ip_usage after the collecting loop of check_ip_conflicts, from pair n on
IpUsage(usage, pairs, n) ==
  IF n > Len(pairs) THEN usage
  ELSE LET interface == pairs[n].interface
           ip == Get(interface, "ip_address", NoneAddr)
           vlan == Get(interface, "vlan", DefaultVlanKey)
       IN IF TruthyAddr(ip)
          THEN IpUsage(DictAppend(usage, <<ip, vlan>>,
                                  [device |-> pairs[n].device,
                                   interface |-> interface.name,
                                   vlan |-> vlan]),
                       pairs, n + 1)
          ELSE IpUsage(usage, pairs, n + 1)

RECURSIVE IpConflicts(_, _)
\* conflicts after the loop over ip_usage.items(), from group g on
IpConflicts(usage, g) ==
  IF g > Len(usage) THEN <<>>
  ELSE (IF Len(usage[g].val) > 1
        THEN <<[ip_address |-> usage[g].key[1],
                vlan |-> usage[g].key[2],
                conflicting_devices |-> usage[g].val,
                severity |-> "critical"]>>
        ELSE <<>>)
       \o IpConflicts(usage, g + 1)

\* check_ip_conflicts
CheckIpConflicts(topo) ==
  LET conflicts == IpConflicts(IpUsage(<<>>, FlattenInterfaces(topo.devices, 1, 1), 1), 1)
  IN Result(IF conflicts # <<>> THEN "fail" ELSE "pass",
            conflicts,
            [c \in DOMAIN conflicts |->
               Text("Resolve IP conflict for {ip} in VLAN {vlan}",
                    <<conflicts[c].ip_address, conflicts[c].vlan>>)])

\* the ids of the vlans declared on a device: [v.get('id') for v in vlans]
DeclaredVlanIds(device_config) ==
  LET vl == Get(device_config, "vlans", <<>>)
  IN {Get(vl[i], "id", NoneInt) : i \in DOMAIN vl}

RECURSIVE VlanConfigsOfDevice(_, _, _)
\* vlan_configs after one device's vlan definitions, from definition k on
VlanConfigsOfDevice(vc, vl, k) ==
  IF k > Len(vl) THEN vc
  ELSE LET vlan_id == Get(vl[k], "id", NoneInt)
           names == IF HasKey(vc, vlan_id) THEN Lookup(vc, vlan_id) ELSE {}
       IN IF TruthyInt(vlan_id)
          THEN VlanConfigsOfDevice(
                 DictSet(vc, vlan_id, names \cup {Get(vl[k], "name", "None")}),
                 vl, k + 1)
          ELSE VlanConfigsOfDevice(vc, vl, k + 1)

RECURSIVE VlanConfigs(_, _, _)
\* vlan_configs after the device loop of check_vlan_consistency
VlanConfigs(vc, devs, i) ==
  IF i > Len(devs) THEN vc
  ELSE VlanConfigs(VlanConfigsOfDevice(vc, Get(devs[i].val, "vlans", <<>>), 1),
                   devs, i + 1)

RECURSIVE UndefinedVlanIssues_DeclaredAnywhere(_, _)
\* the interface check against the vlans declared on any device
UndefinedVlanIssues_DeclaredAnywhere(pairs, n) ==
  IF n > Len(pairs) THEN <<>>
  ELSE LET vlan == Get(pairs[n].interface, "vlan", NoneInt)
           declared == UNION {DeclaredVlanIds(pairs[m].config) : m \in DOMAIN pairs}
       IN (IF TruthyInt(vlan) /\ vlan \notin declared
           THEN <<[device |-> pairs[n].device,
                   interface |-> pairs[n].interface.name,
                   issue |-> Text("Interface assigned to undefined VLAN {vlan}",
                                  <<vlan>>),
                   severity |-> "warning"]>>
           ELSE <<>>)
          \o UndefinedVlanIssues_DeclaredAnywhere(pairs, n + 1)

RECURSIVE UndefinedVlanIssues(_, _)
\* the issues for interfaces assigned to a vlan their device does not declare
UndefinedVlanIssues(pairs, n) ==
  IF n > Len(pairs) THEN <<>>
  ELSE LET vlan == Get(pairs[n].interface, "vlan", NoneInt)
       IN (IF TruthyInt(vlan) /\ vlan \notin DeclaredVlanIds(pairs[n].config)
           THEN <<[device |-> pairs[n].device,
                   interface |-> pairs[n].interface.name,
                   issue |-> Text("Interface assigned to undefined VLAN {vlan}",
                                  <<vlan>>),
                   severity |-> "warning"]>>
           ELSE <<>>)
          \o UndefinedVlanIssues(pairs, n + 1)

RECURSIVE VlanNameIssues(_, _)
\* the issues for vlan ids declared under more than one name
VlanNameIssues(vc, g) ==
  IF g > Len(vc) THEN <<>>
  ELSE (IF Cardinality(vc[g].val) > 1
        THEN <<[vlan_id |-> vc[g].key,
                issue |-> Text("VLAN {vlan_id} has inconsistent names: {names}",
                               <<vc[g].key, vc[g].val>>),
                severity |-> "warning"]>>
        ELSE <<>>)
       \o VlanNameIssues(vc, g + 1)

\* check_vlan_consistency
CheckVlanConsistency(topo) ==
  LET vlan_issues ==
        UndefinedVlanIssues(FlattenInterfaces(topo.devices, 1, 1), 1)
        \o VlanNameIssues(VlanConfigs(<<>>, topo.devices, 1), 1)
  IN Result(IF vlan_issues # <<>> THEN "warning" ELSE "pass",
            vlan_issues,
            <<Text("Standardize VLAN naming conventions across all devices", <<>>)>>)

\* validator._calculate_subnet on well-formed dotted quads
ValidatorSubnet(ip, mask) == [i \in 1..4 |-> BitAnd(ip[i], mask[i])]

RECURSIVE SubnetGateways(_, _, _)
\* subnet_gateways after the collecting loop of check_gateway_configuration
SubnetGateways(sg, pairs, n) ==
  IF n > Len(pairs) THEN sg
  ELSE IF HasSubnet(pairs[n].interface)
          /\ pairs[n].config.device_type = "router"
  THEN SubnetGateways(
         DictAppend(sg,
                    ValidatorSubnet(pairs[n].interface.ip_address,
                                    pairs[n].interface.subnet_mask),
                    [device |-> pairs[n].device,
                     interface |-> pairs[n].interface.name,
                     ip |-> pairs[n].interface.ip_address]),
         pairs, n + 1)
  ELSE SubnetGateways(sg, pairs, n + 1)

\* link_info.get('subnet'); the empty tuple stands for None
LinkSubnet(l) == Get(l, "subnet", NoneAddr)

RECURSIVE MissingGatewayIssues(_, _, _)
\* one issue per link whose subnet has no router interface
MissingGatewayIssues(lk, sg, i) ==
  IF i > Len(lk) THEN <<>>
  ELSE (IF TruthyAddr(LinkSubnet(lk[i].val)) /\ ~HasKey(sg, LinkSubnet(lk[i].val))
        THEN <<[subnet |-> LinkSubnet(lk[i].val),
                issue |-> Text("No router gateway found for subnet {subnet}",
                               <<LinkSubnet(lk[i].val)>>),
                severity |-> "critical",
                link_id |-> lk[i].key]>>
        ELSE <<>>)
       \o MissingGatewayIssues(lk, sg, i + 1)

RECURSIVE MultipleGatewayIssues_Critical(_, _)
\* the multiple-gateway issues raised as critical
MultipleGatewayIssues_Critical(sg, g) ==
  IF g > Len(sg) THEN <<>>
  ELSE (IF Len(sg[g].val) > 1
        THEN <<[subnet |-> sg[g].key,
                issue |-> Text("Multiple gateways detected in subnet {subnet}",
                               <<sg[g].key>>),
                gateways |-> sg[g].val,
                severity |-> "critical",
                suggestion |-> Text("Consider implementing HSRP/VRRP for gateway redundancy", <<>>)]>>
        ELSE <<>>)
       \o MultipleGatewayIssues_Critical(sg, g + 1)

RECURSIVE MultipleGatewayIssues(_, _)
\* one issue per subnet with more than one router interface
MultipleGatewayIssues(sg, g) ==
  IF g > Len(sg) THEN <<>>
  ELSE (IF Len(sg[g].val) > 1
        THEN <<[subnet |-> sg[g].key,
                issue |-> Text("Multiple gateways detected in subnet {subnet}",
                               <<sg[g].key>>),
                gateways |-> sg[g].val,
                severity |-> "warning",
                suggestion |-> Text("Consider implementing HSRP/VRRP for gateway redundancy", <<>>)]>>
        ELSE <<>>)
       \o MultipleGatewayIssues(sg, g + 1)

\* device_config['device_type'] raises KeyError on a device without the field
\* that has an addressed interface
GatewayRaises(topo) ==
  LET pairs == FlattenInterfaces(topo.devices, 1, 1)
  IN \E n \in DOMAIN pairs :
       HasSubnet(pairs[n].interface) /\ "device_type" \notin DOMAIN pairs[n].config

\* check_gateway_configuration
CheckGatewayConfiguration(topo) ==
  IF GatewayRaises(topo) THEN Raised("KeyError")
  ELSE LET sg == SubnetGateways(<<>>, FlattenInterfaces(topo.devices, 1, 1), 1)
           gateway_issues == MissingGatewayIssues(topo.links, sg, 1)
                             \o MultipleGatewayIssues(sg, 1)
       IN Result(SeverityStatus(gateway_issues), gateway_issues,
                 <<Text("Verify default gateway configuration on all subnets", <<>>)>>)

\* _get_device_interfaces
GetDeviceInterfaces(topo, device_id) ==
  IF HasKey(topo.devices, device_id)
  THEN Get(Lookup(topo.devices, device_id), "interfaces", <<>>)
  ELSE <<>>

\* the None of _get_interface_mtu_for_subnet
NoMtu == 0

\* default of interface.get('mtu', ...)
DefaultMtu == 1500

\* _get_interface_mtu_for_subnet: the mtu of the first interface of the list
\* whose subnet is the given one
GetInterfaceMtuForSubnet(interfaces, subnet) ==
  LET hits == {k \in DOMAIN interfaces :
                 /\ HasSubnet(interfaces[k])
                 /\ ValidatorSubnet(interfaces[k].ip_address,
                                    interfaces[k].subnet_mask) = subnet}
  IN IF hits = {} THEN NoMtu
     ELSE Get(interfaces[CHOOSE k \in hits : \A m \in hits : k <= m],
              "mtu", DefaultMtu)

RECURSIVE MtuIssues(_, _)
\* mtu_issues after the loop over the links, from link i on
MtuIssues(topo, i) ==
  IF i > Len(topo.links) THEN <<>>
  ELSE LET l == topo.links[i].val
           mtu1 == GetInterfaceMtuForSubnet(
                     GetDeviceInterfaces(topo, l.device1.device_id), LinkSubnet(l))
           mtu2 == GetInterfaceMtuForSubnet(
                     GetDeviceInterfaces(topo, l.device2.device_id), LinkSubnet(l))
       IN (IF mtu1 # NoMtu /\ mtu2 # NoMtu /\ mtu1 # mtu2
           THEN <<[link_id |-> topo.links[i].key,
                   device1 |-> l.device1.device_id, device1_mtu |-> mtu1,
                   device2 |-> l.device2.device_id, device2_mtu |-> mtu2,
                   severity |-> "warning"]>>
           ELSE <<>>)
          \o MtuIssues(topo, i + 1)

\* check_mtu_mismatches
CheckMtuMismatches(topo) ==
  LET mtu_issues == MtuIssues(topo, 1)
  IN Result(IF mtu_issues # <<>> THEN "warning" ELSE "pass",
            mtu_issues,
            [k \in DOMAIN mtu_issues |->
               Text("Standardize MTU settings on link {link_id}",
                    <<mtu_issues[k].link_id>>)])

-----------------------------------------------------------------------------
(* Validator: graph rules. networkx graphs are a node set and a set of     *)
(* undirected edges {a, b}; the library's algorithms are modelled by what  *)
(* they compute, and the order in which they yield by a fixed order.       *)

RECURSIVE SetToSeq(_)
\* the elements of a finite set in a fixed order
SetToSeq(S) ==
  IF S = {} THEN <<>>
  ELSE LET x == CHOOSE y \in S : TRUE IN <<x>> \o SetToSeq(S \ {x})

\* position of a device id in the device dict
DeviceIndex(devs, id) == CHOOSE i \in DOMAIN devs : devs[i].key = id

\* graph.add_edge(device1, device2) for every link: add_edge also adds the nodes
LinkEdges(lk) ==
  {{lk[i].val.device1.device_id, lk[i].val.device2.device_id} : i \in DOMAIN lk}

Adjacent(E, a, b) == a # b /\ {a, b} \in E

RECURSIVE ReachFrom(_, _, _)
\* the nodes reachable from the set R through edges of E within node set N
ReachFrom(N, E, R) ==
  LET next == R \cup {b \in N : \E a \in R : Adjacent(E, a, b)}
  IN IF next = R THEN R ELSE ReachFrom(N, E, next)

\* a path taken to be a direct link
HasPath_DirectLink(N, E, a, b) == Adjacent(E, a, b)

\* nx.has_path
HasPath(N, E, a, b) == b \in ReachFrom(N, E, {a})

\* number of connected components
ComponentCount(N, E) == Cardinality({ReachFrom(N, E, {n}) : n \in N})

\* the endpoints of the bridges taken for the articulation points
ArticulationPoints_BridgeEnds(N, E) ==
  {v \in N : \E e \in E :
     /\ v \in e /\ Cardinality(e) = 2
     /\ ComponentCount(N, E \ {e}) > ComponentCount(N, E)}

\* nx.articulation_points: the nodes whose removal leaves more components
ArticulationPoints(N, E) ==
  {v \in N : ComponentCount(N \ {v}, {e \in E : v \notin e}) > ComponentCount(N, E)}

\* every link between two devices taken for a bridge
Bridges_AllLinks(N, E) == {e \in E : Cardinality(e) = 2}

\* nx.bridges: the edges whose removal leaves more components
Bridges(N, E) ==
  {e \in E : Cardinality(e) = 2 /\ ComponentCount(N, E \ {e}) > ComponentCount(N, E)}

RECURSIVE ExtendPaths(_, _, _)
\* the simple paths of E over node set N that extend a path of P, and P itself
ExtendPaths(N, E, P) ==
  LET longer == {Append(p, b) : p \in P, b \in N} 
      ok == {q \in longer :
               /\ \A i \in 1..(Len(q) - 1) : q[i] # q[Len(q)]
               /\ Adjacent(E, q[Len(q) - 1], q[Len(q)])}
  IN IF ok = {} THEN P ELSE P \cup ExtendPaths(N, E, ok)

\* nx.simple_cycles(nx.DiGraph(graph)) restricted to len(cycle) > 2: every
\* directed simple cycle once, written from its first node in device order
DirectedCycles(devs, N, E) ==
  {p \in ExtendPaths(N, E, {<<n>> : n \in N}) :
     /\ Len(p) > 2
     /\ Adjacent(E, p[Len(p)], p[1])
     /\ \A i \in 2..Len(p) : DeviceIndex(devs, p[1]) < DeviceIndex(devs, p[i])}

\* the strings of the model that contain 'spanning-tree'
StpMarkers == {"spanning-tree"}

\* 'spanning-tree' in str(device_config).lower(): the parsed record holds the
\* marker only in one of its string values
HasStpMarker(device_config) ==
  LET vl == Get(device_config, "vlans", <<>>)
  IN \E i \in DOMAIN vl : Get(vl[i], "name", "None") \in StpMarkers

\* some device record has no device_type field
SomeDeviceUntyped(topo) ==
  \E i \in DOMAIN topo.devices : "device_type" \notin DOMAIN topo.devices[i].val

\* ids of the devices of the given types, in dict order
RECURSIVE DevicesOfType(_, _, _)
DevicesOfType(devs, types, i) ==
  IF i > Len(devs) THEN <<>>
  ELSE (IF devs[i].val.device_type \in types THEN <<devs[i].key>> ELSE <<>>)
       \o DevicesOfType(devs, types, i + 1)

Range(seq) == {seq[i] : i \in DOMAIN seq}

\* check_network_loops
CheckNetworkLoops(topo) ==
  IF SomeDeviceUntyped(topo) THEN Raised("KeyError")
  ELSE LET N == Range(DevicesOfType(topo.devices, {"router", "switch"}, 1))
           E == {e \in LinkEdges(topo.links) : e \subseteq N}
           cycles == SetToSeq(DirectedCycles(topo.devices, N, E))
           loops == [c \in DOMAIN cycles |->
                       [devices_in_loop |-> cycles[c],
                        loop_length |-> Len(cycles[c]),
                        severity |-> "warning",
                        recommendation |-> Text("Verify spanning-tree protocol configuration", <<>>)]]
           switches == DevicesOfType(topo.devices, {"switch"}, 1)
           unmarked == SelectSeq(switches,
                         LAMBDA id : ~HasStpMarker(Lookup(topo.devices, id)))
           stp_issues == [k \in DOMAIN unmarked |->
                            [device |-> unmarked[k],
                             issue |-> Text("No spanning-tree configuration detected", <<>>),
                             severity |-> "warning"]]
           all_issues == loops \o stp_issues
       IN Result(IF all_issues # <<>> THEN "warning" ELSE "pass",
                 all_issues,
                 <<Text("Enable and configure spanning-tree protocol on all switches", <<>>),
                   Text("Consider implementing rapid spanning-tree (RSTP) for faster convergence", <<>>)>>)

\* the distinct truthy subnet tags of the links
LinkSubnets(lk) ==
  {LinkSubnet(lk[i].val) : i \in {j \in DOMAIN lk : TruthyAddr(LinkSubnet(lk[j].val))}}

\* check_missing_components
CheckMissingComponents(topo) ==
  IF SomeDeviceUntyped(topo) THEN Raised("KeyError")
  ELSE LET N == {topo.devices[i].key : i \in DOMAIN topo.devices}
                \cup UNION LinkEdges(topo.links)
           E == LinkEdges(topo.links)
           routers == DevicesOfType(topo.devices, {"router"}, 1)
           endpoints == DevicesOfType(topo.devices, {"endpoint"}, 1)
           isolated == SelectSeq(endpoints,
                         LAMBDA e : \A r \in Range(routers) : ~HasPath(N, E, e, r))
           subnets == SetToSeq(LinkSubnets(topo.links))
           missing_components ==
             [k \in DOMAIN isolated |->
                [endpoint |-> isolated[k],
                 issue |-> Text("Endpoint {endpoint} has no path to any router",
                                <<isolated[k]>>),
                 severity |-> "critical",
                 suggestion |-> Text("Add switch/router configuration for {endpoint} connectivity",
                                     <<isolated[k]>>)]]
             \o (IF Len(routers) = 0
                 THEN [k \in DOMAIN subnets |->
                         [subnet |-> subnets[k],
                          issue |-> Text("No DHCP server configuration found for subnet {subnet}",
                                         <<subnets[k]>>),
                          severity |-> "warning",
                          suggestion |-> Text("Configure DHCP server or DHCP relay agent", <<>>)]]
                 ELSE <<>>)
       IN Result(SeverityStatus(missing_components), missing_components,
                 <<Text("Ensure all endpoints have connectivity to network infrastructure", <<>>)>>)

RECURSIVE ProtocolUsageOf(_, _, _)
\* protocol_usage after one router's routing_protocols, from binding k on
ProtocolUsageOf(pu, protos, k) ==
  IF k > Len(protos) THEN pu
  ELSE LET name == Get(protos[k], "protocol", "unknown")
       IN ProtocolUsageOf(
            DictSet(pu, name, (IF HasKey(pu, name) THEN Lookup(pu, name) ELSE 0) + 1),
            protos, k + 1)

RECURSIVE ProtocolUsage(_, _, _)
\* protocol_usage after the loop over the devices, from device i on
ProtocolUsage(pu, devs, i) ==
  IF i > Len(devs) THEN pu
  ELSE IF devs[i].val.device_type = "router"
  THEN ProtocolUsage(
         ProtocolUsageOf(pu, Get(devs[i].val, "routing_protocols", <<>>), 1),
         devs, i + 1)
  ELSE ProtocolUsage(pu, devs, i + 1)

\* router count above which BGP is recommended
LargeNetworkRouters == 20

\* the routing rule recommending BGP from the compared router count on
CheckRoutingProtocolOptimization_Inclusive(topo) ==
  IF SomeDeviceUntyped(topo) THEN Raised("KeyError")
  ELSE LET router_count == Len(DevicesOfType(topo.devices, {"router"}, 1))
           pu == ProtocolUsage(<<>>, topo.devices, 1)
           usage(name) == IF HasKey(pu, name) THEN Lookup(pu, name) ELSE 0
           routing_issues ==
             (IF router_count >= LargeNetworkRouters /\ usage("OSPF") > usage("BGP")
              THEN <<[issue |-> Text("Network with {router_count} routers using primarily OSPF",
                                     <<router_count>>),
                      recommendation |-> Text("Consider migrating to BGP for better scalability", <<>>),
                      severity |-> "suggestion",
                      router_count |-> router_count]>>
              ELSE <<>>)
             \o (IF Len(pu) > 1
                 THEN <<[issue |-> Text("Multiple routing protocols detected: {protocols}",
                                        <<[k \in DOMAIN pu |-> pu[k].key]>>),
                         recommendation |-> Text("Consider standardizing on a single routing protocol", <<>>),
                         severity |-> "warning",
                         protocols |-> pu]>>
                 ELSE <<>>)
             \o (IF router_count = 1
                 THEN <<[issue |-> Text("Single router detected - no routing redundancy", <<>>),
                         recommendation |-> Text("Add redundant routers for high availability", <<>>),
                         severity |-> "warning"]>>
                 ELSE <<>>)
       IN Result(IF routing_issues = <<>> THEN "pass" ELSE "warning",
                 routing_issues,
                 <<Text("Optimize routing protocol selection based on network size and requirements", <<>>)>>)

\* check_routing_protocol_optimization
CheckRoutingProtocolOptimization(topo) ==
  IF SomeDeviceUntyped(topo) THEN Raised("KeyError")
  ELSE LET router_count == Len(DevicesOfType(topo.devices, {"router"}, 1))
           pu == ProtocolUsage(<<>>, topo.devices, 1)
           usage(name) == IF HasKey(pu, name) THEN Lookup(pu, name) ELSE 0
           routing_issues ==
             (IF router_count > LargeNetworkRouters /\ usage("OSPF") > usage("BGP")
              THEN <<[issue |-> Text("Network with {router_count} routers using primarily OSPF",
                                     <<router_count>>),
                      recommendation |-> Text("Consider migrating to BGP for better scalability", <<>>),
                      severity |-> "suggestion",
                      router_count |-> router_count]>>
              ELSE <<>>)
             \o (IF Len(pu) > 1
                 THEN <<[issue |-> Text("Multiple routing protocols detected: {protocols}",
                                        <<[k \in DOMAIN pu |-> pu[k].key]>>),
                         recommendation |-> Text("Consider standardizing on a single routing protocol", <<>>),
                         severity |-> "warning",
                         protocols |-> pu]>>
                 ELSE <<>>)
             \o (IF router_count = 1
                 THEN <<[issue |-> Text("Single router detected - no routing redundancy", <<>>),
                         recommendation |-> Text("Add redundant routers for high availability", <<>>),
                         severity |-> "warning"]>>
                 ELSE <<>>)
       IN Result(IF routing_issues = <<>> THEN "pass" ELSE "warning",
                 routing_issues,
                 <<Text("Optimize routing protocol selection based on network size and requirements", <<>>)>>)

\* device count above which segmentation is expected
SegmentationDevices == 10

\* vlan count below which a large network is under-segmented
SegmentationVlans == 3

\* the default vlan
DefaultVlan == 1

\* the security rule expecting segmentation from the compared device count on
CheckSecurityZones_Inclusive(topo) ==
  LET pairs == FlattenInterfaces(topo.devices, 1, 1)
      vlan_count ==
        Cardinality({Get(pairs[n].interface, "vlan", NoneInt) :
                       n \in {m \in DOMAIN pairs :
                                TruthyInt(Get(pairs[m].interface, "vlan", NoneInt))}})
      device_count == Len(topo.devices)
      onDefault == SelectSeq(pairs,
                     LAMBDA pr : Get(pr.interface, "vlan", NoneInt) = DefaultVlan)
      default_vlan_devices == [k \in DOMAIN onDefault |-> onDefault[k].device]
      security_issues ==
        (IF device_count >= SegmentationDevices /\ vlan_count < SegmentationVlans
         THEN <<[issue |-> Text("Network with {device_count} devices using only {vlan_count} VLANs",
                                <<device_count, vlan_count>>),
                 recommendation |-> Text("Implement network segmentation with additional VLANs", <<>>),
                 severity |-> "suggestion"]>>
         ELSE <<>>)
        \o (IF default_vlan_devices # <<>>
            THEN <<[issue |-> Text("Devices using default VLAN 1: {devices}",
                                   <<default_vlan_devices>>),
                    recommendation |-> Text("Avoid using default VLAN for production traffic", <<>>),
                    severity |-> "warning"]>>
            ELSE <<>>)
  IN Result(IF security_issues # <<>> THEN "warning" ELSE "pass",
            security_issues,
            <<Text("Implement proper network segmentation and security zones", <<>>)>>)

\* check_security_zones
CheckSecurityZones(topo) ==
  LET pairs == FlattenInterfaces(topo.devices, 1, 1)
      vlan_count ==
        Cardinality({Get(pairs[n].interface, "vlan", NoneInt) :
                       n \in {m \in DOMAIN pairs :
                                TruthyInt(Get(pairs[m].interface, "vlan", NoneInt))}})
      device_count == Len(topo.devices)
      onDefault == SelectSeq(pairs,
                     LAMBDA pr : Get(pr.interface, "vlan", NoneInt) = DefaultVlan)
      default_vlan_devices == [k \in DOMAIN onDefault |-> onDefault[k].device]
      security_issues ==
        (IF device_count > SegmentationDevices /\ vlan_count < SegmentationVlans
         THEN <<[issue |-> Text("Network with {device_count} devices using only {vlan_count} VLANs",
                                <<device_count, vlan_count>>),
                 recommendation |-> Text("Implement network segmentation with additional VLANs", <<>>),
                 severity |-> "suggestion"]>>
         ELSE <<>>)
        \o (IF default_vlan_devices # <<>>
            THEN <<[issue |-> Text("Devices using default VLAN 1: {devices}",
                                   <<default_vlan_devices>>),
                    recommendation |-> Text("Avoid using default VLAN for production traffic", <<>>),
                    severity |-> "warning"]>>
            ELSE <<>>)
  IN Result(IF security_issues # <<>> THEN "warning" ELSE "pass",
            security_issues,
            <<Text("Implement proper network segmentation and security zones", <<>>)>>)

\* an edge as the pair nx.bridges yields, first endpoint first in device order
BridgePair(devs, N, e) ==
  LET a == CHOOSE x \in e : \A y \in e : DeviceIndex(devs, x) <= DeviceIndex(devs, y)
      b == CHOOSE y \in e : y # a
  IN <<a, b>>

\* check_redundancy
CheckRedundancy(topo) ==
  LET N == {topo.devices[i].key : i \in DOMAIN topo.devices}
           \cup UNION LinkEdges(topo.links)
      E == LinkEdges(topo.links)
      aps == SelectSeq([i \in DOMAIN topo.devices |-> topo.devices[i].key],
                       LAMBDA id : id \in ArticulationPoints(N, E))
      bridges == SetToSeq({BridgePair(topo.devices, N, e) : e \in Bridges(N, E)})
  IN IF \E k \in DOMAIN aps : "device_type" \notin DOMAIN Lookup(topo.devices, aps[k])
     THEN Raised("KeyError")
     ELSE LET redundancy_issues ==
                [k \in DOMAIN aps |->
                   LET device_type == Lookup(topo.devices, aps[k]).device_type
                   IN [device |-> aps[k],
                       device_type |-> device_type,
                       issue |-> Text("{device_type} {node} is a single point of failure",
                                      <<device_type, aps[k]>>),
                       recommendation |-> Text("Add redundant paths around {node}", <<aps[k]>>),
                       severity |-> IF device_type = "router" THEN "critical" ELSE "warning"]]
                \o [k \in DOMAIN bridges |->
                      [link |-> LinkId(bridges[k][1], bridges[k][2]),
                       issue |-> Text("Link between {device1} and {device2} is a single point of failure",
                                      bridges[k]),
                       recommendation |-> Text("Add redundant links or alternative paths", <<>>),
                       severity |-> "warning"]]
          IN Result(SeverityStatus(redundancy_issues), redundancy_issues,
                    <<Text("Implement redundant paths and eliminate single points of failure", <<>>)>>)

-----------------------------------------------------------------------------
(* Validator: capacity rule and the engine *)

\* the traffic_analysis argument left at its default None
NoTraffic == <<>>

\* Python truthiness of the traffic_analysis argument: None and {} are falsy
TruthyTraffic(traffic) == DOMAIN traffic # {}

\* utilization above which a link is critically overloaded
CriticalUtilization == 90

\* utilization above which a link is approaching capacity
WarningUtilization == 75

RECURSIVE CapacityIssues_Inclusive(_, _)
\* the loop over link_utilization with the thresholds compared by >=
CapacityIssues_Inclusive(lu, n) ==
  IF n > Len(lu) THEN <<>>
  ELSE LET u == Get(lu[n].val, "utilization_percent", 0)
       IN (IF u >= CriticalUtilization
           THEN <<[link_id |-> lu[n].key, utilization |-> u,
                   issue |-> Text("Link {link_id} critically overloaded at {utilization}%",
                                  <<lu[n].key, u>>),
                   recommendation |-> Text("Immediate capacity upgrade required", <<>>),
                   severity |-> "critical"]>>
           ELSE IF u >= WarningUtilization
           THEN <<[link_id |-> lu[n].key, utilization |-> u,
                   issue |-> Text("Link {link_id} approaching capacity at {utilization}%",
                                  <<lu[n].key, u>>),
                   recommendation |-> Text("Plan capacity upgrade or load balancing", <<>>),
                   severity |-> "warning"]>>
           ELSE <<>>)
          \o CapacityIssues_Inclusive(lu, n + 1)

RECURSIVE CapacityIssues(_, _)
\* capacity_issues after the loop over link_utilization.items(), from entry n on
CapacityIssues(lu, n) ==
  IF n > Len(lu) THEN <<>>
  ELSE LET u == Get(lu[n].val, "utilization_percent", 0)
       IN (IF u > CriticalUtilization
           THEN <<[link_id |-> lu[n].key, utilization |-> u,
                   issue |-> Text("Link {link_id} critically overloaded at {utilization}%",
                                  <<lu[n].key, u>>),
                   recommendation |-> Text("Immediate capacity upgrade required", <<>>),
                   severity |-> "critical"]>>
           ELSE IF u > WarningUtilization
           THEN <<[link_id |-> lu[n].key, utilization |-> u,
                   issue |-> Text("Link {link_id} approaching capacity at {utilization}%",
                                  <<lu[n].key, u>>),
                   recommendation |-> Text("Plan capacity upgrade or load balancing", <<>>),
                   severity |-> "warning"]>>
           ELSE <<>>)
          \o CapacityIssues(lu, n + 1)

\* check_capacity_adequacy(topology_data, traffic_analysis)
CheckCapacityAdequacy(traffic) ==
  IF ~TruthyTraffic(traffic) THEN Result("pass", <<>>, <<>>)
  ELSE LET capacity_issues == CapacityIssues(Get(traffic, "link_utilization", <<>>), 1)
       IN Result(SeverityStatus(capacity_issues), capacity_issues,
                 <<Text("Monitor link utilization and plan capacity upgrades proactively", <<>>)>>)

\* self.validation_rules, in registration order
RuleNames ==
  <<"ip_conflicts", "vlan_consistency", "gateway_validation", "mtu_mismatches",
    "network_loops", "missing_components", "routing_optimization",
    "security_zones", "redundancy_analysis", "capacity_validation">>

\* topology_data['devices'] and topology_data['links'] exist
HasTables(topo) == {"devices", "links"} \subseteq DOMAIN topo

\* the rule function of the given name applied to the topology
ApplyRule(rule_name, topo) ==
  CASE rule_name = "ip_conflicts" -> CheckIpConflicts(topo)
    [] rule_name = "vlan_consistency" -> CheckVlanConsistency(topo)
    [] rule_name = "gateway_validation" -> CheckGatewayConfiguration(topo)
    [] rule_name = "mtu_mismatches" -> CheckMtuMismatches(topo)
    [] rule_name = "network_loops" -> CheckNetworkLoops(topo)
    [] rule_name = "missing_components" -> CheckMissingComponents(topo)
    [] rule_name = "routing_optimization" -> CheckRoutingProtocolOptimization(topo)
    [] rule_name = "security_zones" -> CheckSecurityZones(topo)
    [] rule_name = "redundancy_analysis" -> CheckRedundancy(topo)

\* the call of one rule inside the try block: the capacity rule gets the
\* traffic summary only when it is truthy, and is otherwise called with one
\* argument short (TypeError); every other rule reads topology_data['devices']
\* or ['links'] first (KeyError when absent)
RuleOutcome(rule_name, topo, traffic) ==
  IF rule_name = "capacity_validation"
  THEN IF TruthyTraffic(traffic) THEN CheckCapacityAdequacy(traffic)
       ELSE Raised("TypeError")
  ELSE IF HasTables(topo) THEN ApplyRule(rule_name, topo)
       ELSE Raised("KeyError")

\* the try block with a warning rule's issues extended onto critical_issues
RecordResult_WarningsAsCritical(vr, rule_name, out) ==
  LET result == [status |-> out.status, issues |-> out.issues,
                 suggestions |-> out.suggestions]
  IN [vr EXCEPT
        !.detailed_results = DictSet(@, rule_name, result),
        !.passed_checks = IF out.status = "pass" THEN @ + 1 ELSE @,
        !.failed_checks = IF out.status = "fail" THEN @ + 1 ELSE @,
        !.critical_issues = IF out.status \in {"fail", "warning"}
                            THEN @ \o out.issues ELSE @,
        !.warnings = IF out.status = "warning" THEN @ + 1 ELSE @,
        !.optimization_suggestions = @ \o out.suggestions]

\* the try block counting a passed check only while no check has failed
RecordResult_PassedUntilFailure(vr, rule_name, out) ==
  LET result == [status |-> out.status, issues |-> out.issues,
                 suggestions |-> out.suggestions]
  IN [vr EXCEPT
        !.detailed_results = DictSet(@, rule_name, result),
        !.passed_checks = IF out.status = "pass" /\ vr.failed_checks = 0
                          THEN @ + 1 ELSE @,
        !.failed_checks = IF out.status = "fail" THEN @ + 1 ELSE @,
        !.critical_issues = IF out.status = "fail" THEN @ \o out.issues ELSE @,
        !.warnings = IF out.status = "warning" THEN @ + 1 ELSE @,
        !.warnings_list = IF out.status = "warning" THEN @ \o out.issues ELSE @,
        !.optimization_suggestions = @ \o out.suggestions]

\* what the try block records for a rule that returned
RecordResult(vr, rule_name, out) ==
  LET result == [status |-> out.status, issues |-> out.issues,
                 suggestions |-> out.suggestions]
  IN [vr EXCEPT
        !.detailed_results = DictSet(@, rule_name, result),
        !.passed_checks = IF out.status = "pass" THEN @ + 1 ELSE @,
        !.failed_checks = IF out.status = "fail" THEN @ + 1 ELSE @,
        !.critical_issues = IF out.status = "fail" THEN @ \o out.issues ELSE @,
        !.warnings = IF out.status = "warning" THEN @ + 1 ELSE @,
        !.warnings_list = IF out.status = "warning" THEN @ \o out.issues ELSE @,
        !.optimization_suggestions = @ \o out.suggestions]

\* what the except block records for a rule that raised
RecordError(vr, rule_name, out) ==
  [vr EXCEPT
     !.detailed_results = DictSet(@, rule_name,
                                  [status |-> "error", error |-> out.error])]

RECURSIVE RunRules_AbortOnError(_, _, _, _)
\* the rule loop with the try block around the whole loop
RunRules_AbortOnError(vr, topo, traffic, n) ==
  IF n > Len(RuleNames) THEN vr
  ELSE LET out == RuleOutcome(RuleNames[n], topo, traffic)
       IN IF out.raised THEN RecordError(vr, RuleNames[n], out)
          ELSE RunRules_AbortOnError(RecordResult(vr, RuleNames[n], out),
                                     topo, traffic, n + 1)

RECURSIVE RunRules(_, _, _, _)
\* the loop over self.validation_rules.items(), from rule n on
RunRules(vr, topo, traffic, n) ==
  IF n > Len(RuleNames) THEN vr
  ELSE LET out == RuleOutcome(RuleNames[n], topo, traffic)
       IN RunRules(IF out.raised THEN RecordError(vr, RuleNames[n], out)
                   ELSE RecordResult(vr, RuleNames[n], out),
                   topo, traffic, n + 1)

\* a score as the exact fraction num/den of the float the code computes
Score(num, den) == [num |-> num, den |-> den]

\* the score over every registered rule instead of the evaluated ones
OverallScore_OverAllRules(passed, failed, warnings) ==
  Score((passed * 100 + warnings * 50) * 100, Len(RuleNames) * 100)

\* overall_score: 0 unless some check was evaluated, else
\* (passed*100 + warnings*50) / (total_checks*100) * 100
OverallScore(passed, failed, warnings) ==
  LET total_checks == passed + failed + warnings
  IN IF total_checks > 0
     THEN Score((passed * 100 + warnings * 50) * 100, total_checks * 100)
     ELSE Score(0, 1)

\* validation_results as first built
InitialResults ==
  [overall_score |-> Score(0, 1),
   total_checks |-> Len(RuleNames),
   passed_checks |-> 0, failed_checks |-> 0, warnings |-> 0,
   critical_issues |-> <<>>, warnings_list |-> <<>>,
   optimization_suggestions |-> <<>>,
   detailed_results |-> <<>>]

\* validate_network_configuration
ValidateNetworkConfiguration(topo, traffic) ==
  LET vr == RunRules(InitialResults, topo, traffic, 1)
  IN [vr EXCEPT !.overall_score =
        OverallScore(vr.passed_checks, vr.failed_checks, vr.warnings)]

-----------------------------------------------------------------------------
(* Parsed configuration files the builds draw from *)

Iface(name, ip, mask, vlan, mtu, bw) ==
  [name |-> name, ip_address |-> ip, subnet_mask |-> mask, vlan |-> vlan,
   mtu |-> mtu, bandwidth |-> bw]

\* an interface record that carries no bandwidth field
IfaceNoBandwidth(name, ip, mask, vlan, mtu) ==
  [name |-> name, ip_address |-> ip, subnet_mask |-> mask, vlan |-> vlan,
   mtu |-> mtu]

Device(name, type, ifs, vlans, protos) ==
  [device_name |-> name, device_type |-> type, interfaces |-> ifs,
   vlans |-> vlans, routing_protocols |-> protos]

Mask24 == <<255, 255, 255, 0>>
Mask30 == <<255, 255, 255, 252>>

IdR1 == <<"R", "1">>
IdR2 == <<"R", "2">>
IdS1 == <<"S", "1">>
IdS2 == <<"S", "2">>
IdPC1 == <<"P", "C", "1">>
IdPC2 == <<"P", "C", "2">>
IdFW1 == <<"F", "W", "1">>
IdPC3 == <<"P", "C", "3">>
IdS3 == <<"S", "3">>

CfgPC1 ==
  Device(IdPC1, "endpoint",
         <<IfaceNoBandwidth("Ethernet0", <<192, 168, 10, 5>>, Mask24, 10, 1500)>>,
         <<>>, <<>>)

CfgPC2 ==
  Device(IdPC2, "endpoint",
         <<Iface("Ethernet0", NoneAddr, NoneAddr, 10, 1500, 100000)>>,
         <<>>, <<>>)

CfgR1 ==
  Device(IdR1, "router",
         <<Iface("GigabitEthernet0/0", <<10, 0, 0, 1>>, Mask30, NoneInt, 1500, 1000),
           Iface("GigabitEthernet0/1", <<192, 168, 10, 1>>, Mask24, NoneInt, 1500, 100000)>>,
         <<>>, <<[protocol |-> "OSPF", process_id |-> 1]>>)

CfgR2 ==
  Device(IdR2, "router",
         <<Iface("GigabitEthernet0/0", <<10, 0, 0, 2>>, Mask30, NoneInt, 1400, 500),
           Iface("GigabitEthernet0/1", <<192, 168, 10, 2>>, Mask24, NoneInt, 1500, 2000)>>,
         <<>>, <<[protocol |-> "BGP", as_number |-> 65000]>>)

CfgS1 ==
  Device(IdS1, "switch",
         <<Iface("FastEthernet0/1", NoneAddr, NoneAddr, 10, 1500, 100000)>>,
         <<[id |-> 10, name |-> "USERS"]>>, <<>>)

\* S1 after an address was configured on it
CfgS1Addr ==
  Device(IdS1, "switch",
         <<Iface("FastEthernet0/1", <<192, 168, 10, 3>>, Mask24, 10, 1500, 100000)>>,
         <<[id |-> 10, name |-> "USERS"]>>, <<>>)

\* a record without a device_type field
CfgFW1 ==
  [device_name |-> IdFW1,
   interfaces |-> <<Iface("Ethernet1", <<192, 168, 10, 9>>, Mask24, NoneInt, 1500, 1000)>>,
   vlans |-> <<>>, routing_protocols |-> <<>>]

CfgS2 ==
  Device(IdS2, "switch",
         <<Iface("FastEthernet0/1", NoneAddr, NoneAddr, 20, 1500, 100000)>>,
         <<[id |-> 20, name |-> "SERVERS"]>>, <<>>)

\* R2 with its own LAN, joined to R1 by the WAN subnet only
CfgR2Lan20 ==
  Device(IdR2, "router",
         <<Iface("GigabitEthernet0/0", <<10, 0, 0, 2>>, Mask30, NoneInt, 1500, 1000),
           Iface("GigabitEthernet0/1", <<192, 168, 20, 1>>, Mask24, NoneInt, 1500, 100000)>>,
         <<>>, <<[protocol |-> "OSPF", process_id |-> 1]>>)

\* a host with PC1's address on two interfaces, one on vlan 20 and one on
\* vlan 10, with different MTUs
CfgPC3 ==
  Device(IdPC3, "endpoint",
         <<Iface("Ethernet0", <<192, 168, 10, 5>>, Mask24, 20, 1400, 1000),
           Iface("Ethernet1", <<192, 168, 10, 5>>, Mask24, 10, 1500, 1000)>>,
         <<>>, <<>>)

\* a switch that declares vlan 10 under another name
CfgS3 ==
  Device(IdS3, "switch",
         <<Iface("FastEthernet0/1", NoneAddr, NoneAddr, 10, 1500, 100000)>>,
         <<[id |-> 10, name |-> "STAFF"]>>, <<>>)

\* the directory listing the builds draw their files from
Catalogue ==
  <<CfgFW1, CfgPC1, CfgPC2, CfgPC3, CfgR1, CfgR2, CfgR2Lan20, CfgS1, CfgS1Addr,
    CfgS2, CfgS3>>

RECURSIVE Listing(_)
\* the files with the given catalogue indices, in listing order
Listing(S) ==
  IF S = {} THEN <<>>
  ELSE LET m == CHOOSE x \in S : \A y \in S : x <= y
       IN <<Catalogue[m]>> \o Listing(S \ {m})

Reverse(s) == [i \in DOMAIN s |-> s[Len(s) + 1 - i]]

\* the directories of at most n files, listed in either order
Directories(n) ==
  LET sets == {S \in SUBSET DOMAIN Catalogue : Cardinality(S) <= n}
  IN {Listing(S) : S \in sets} \cup {Reverse(Listing(S)) : S \in sets}

Inputs == Directories(MaxInput)

RebuildInputs == Directories(MaxRebuildInput)

-----------------------------------------------------------------------------
(* Directories of many devices, up to the sizes the rules compare with *)

Digits == <<"0", "1", "2", "3", "4", "5", "6", "7", "8", "9">>

\* the hostname of the i-th device of a fleet
FleetId(letter, i) == <<letter, Digits[(i \div 10) + 1], Digits[(i % 10) + 1]>>

\* most routers of a fleet that run one protocol
MaxProtocolRouters == 2

\* numbers of routers and of endpoints of a fleet, around the router count
\* and the device count the rules compare with
FleetShapes ==
  {<<1, 0>>, <<2, 0>>, <<0, 2>>,
   <<LargeNetworkRouters, 0>>, <<LargeNetworkRouters + 1, 0>>,
   <<1, SegmentationDevices - 1>>, <<1, SegmentationDevices>>,
   <<0, SegmentationDevices>>, <<0, SegmentationDevices + 1>>}

\* the vlans of the access interfaces of the first device of a fleet
FleetVlans ==
  {<<>>, <<1>>, <<10>>, <<1, 10>>, <<10, 20>>, <<1, 10, 20>>, <<10, 20, 30>>}

\* the parsed file of the i-th device of a fleet of r routers: the first
\* ospf routers run OSPF, the next bgp run BGP, the first device carries one
\* unaddressed interface per vlan of vl
FleetConfig(i, r, ospf, bgp, vl) ==
  Device(FleetId(IF i <= r THEN "R" ELSE "H", i),
         IF i <= r THEN "router" ELSE "endpoint",
         IF i = 1
         THEN [k \in DOMAIN vl |->
                 Iface(IF k = 1 THEN "FastEthernet0/1"
                       ELSE IF k = 2 THEN "FastEthernet0/2" ELSE "FastEthernet0/3",
                       NoneAddr, NoneAddr, vl[k], 1500, 100000)]
         ELSE <<>>,
         <<>>,
         IF i <= ospf THEN <<[protocol |-> "OSPF", process_id |-> 1]>>
         ELSE IF i <= ospf + bgp THEN <<[protocol |-> "BGP", process_id |-> 65000]>>
         ELSE <<>>)

\* the directories of the fleets: only routers run a protocol
FleetInputs ==
  {[i \in 1..(x[1][1] + x[1][2]) |-> FleetConfig(i, x[1][1], x[2], x[3], x[4])] :
     x \in {y \in FleetShapes \X (0..MaxProtocolRouters)
                    \X (0..MaxProtocolRouters) \X FleetVlans :
              y[2] + y[3] <= y[1][1]}}

-----------------------------------------------------------------------------
(* Inputs of the validator *)

\* the utilization percentages a traffic summary reports
UtilizationLevels == {75, 76, 90, 91}

RECURSIVE LinkUtilizations(_, _)
\* the link_utilization dicts over the first k links of the table
LinkUtilizations(lk, k) ==
  IF k = 0 THEN {<<>>}
  ELSE {Append(lu, [key |-> lk[k].key,
                    val |-> [bandwidth_mbps |-> lk[k].val.bandwidth_mbps,
                             utilization_percent |-> u]]) :
          lu \in LinkUtilizations(lk, k - 1), u \in UtilizationLevels}

\* the traffic summaries a validation can be given
TrafficInputs(lk) ==
  {NoTraffic} \cup
  {[link_utilization |-> lu] :
     lu \in UNION {LinkUtilizations(lk, k) : k \in 0..Min(Len(lk), MaxTrafficLinks)}}

\* a topology file that holds neither 'devices' nor 'links'
EmptyTopology == <<>>

\* the topology_data a validation can be given: the export of the built
\* tables, or an empty record
TopologyInputs == {[devices |-> devices, links |-> links], EmptyTopology}

-----------------------------------------------------------------------------
(* The summary of the built graph *)

\* no summary was computed yet
NoSummary == <<>>

\* number of devices whose d['device_type'] is the given role
RoleCount(devs, role) ==
  Cardinality({i \in DOMAIN devs : devs[i].val.device_type = role})

\* the summary counting every tagged link as a subnet of its own
GetTopologySummary_TaggedLinks(devs, lk) ==
  IF \E i \in DOMAIN devs : "device_type" \notin DOMAIN devs[i].val
  THEN Raised("KeyError")
  ELSE [raised |-> FALSE,
        total_devices |-> Len(devs),
        routers |-> RoleCount(devs, "router"),
        switches |-> RoleCount(devs, "switch"),
        endpoints |-> RoleCount(devs, "endpoint"),
        total_links |-> Len(lk),
        subnets |-> Cardinality({i \in DOMAIN lk : "subnet" \in DOMAIN lk[i].val})]

\* get_topology_summary: d['device_type'] raises KeyError on a record
\* without the field
GetTopologySummary(devs, lk) ==
  IF \E i \in DOMAIN devs : "device_type" \notin DOMAIN devs[i].val
  THEN Raised("KeyError")
  ELSE [raised |-> FALSE,
        total_devices |-> Len(devs),
        routers |-> RoleCount(devs, "router"),
        switches |-> RoleCount(devs, "switch"),
        endpoints |-> RoleCount(devs, "endpoint"),
        total_links |-> Len(lk),
        subnets |-> Cardinality({lk[i].val.subnet :
                                   i \in {j \in DOMAIN lk : "subnet" \in DOMAIN lk[j].val}})]

-----------------------------------------------------------------------------
(* The state machine *)

NoArgs == [topology |-> EmptyTopology, traffic |-> NoTraffic]

\* NetworkSimulator with the given devices loaded: NetworkDevice.__init__
\* leaves each device not running, its thread not started, its log empty
SimulatorOf(loaded) ==
  /\ simDevices = loaded
  /\ simPc = "loaded"
  /\ simIndex = 1
  /\ running = [i \in DOMAIN loaded |-> FALSE]
  /\ threadPc = [i \in DOMAIN loaded |-> "new"]
  /\ logs = [i \in DOMAIN loaded |-> <<>>]
  /\ simReport = <<>>

\* NetworkTopology.__init__ and NetworkSimulator.__init__; no validation has
\* run and no device is loaded
Init ==
  /\ devices = <<>>
  /\ links = <<>>
  /\ lastInput = <<>>
  /\ nbuilds = 0
  /\ validated = FALSE
  /\ args = NoArgs
  /\ report = InitialResults
  /\ summary = NoSummary
  /\ SimulatorOf(<<>>)

\* topology.build_topology_from_configs(config_directory) on the tables as
\* they are, and the summary export_to_json computes right after it
DoBuild(input) ==
  LET t == BuildTopology(devices, links, input)
  IN /\ devices' = t.devices
     /\ links' = t.links
     /\ lastInput' = input
     /\ nbuilds' = nbuilds + 1
     /\ summary' = GetTopologySummary(t.devices, t.links)
     /\ UNCHANGED <<validated, args, report>>
     /\ UNCHANGED simvars

\* the build of a new builder, as main.py runs it
Build ==
  /\ nbuilds = 0
  /\ \E input \in Inputs : DoBuild(input)

\* a build on a builder that may have been built before
Rebuild ==
  /\ nbuilds < MaxBuilds
  /\ \E input \in RebuildInputs : DoBuild(input)

\* a validation whose rules drop the links of the graph they are given
Validate_DropsLinks ==
  /\ nbuilds > 0
  /\ ~validated
  /\ \E topo \in TopologyInputs, traffic \in TrafficInputs(links) :
       /\ args' = [topology |-> topo, traffic |-> traffic]
       /\ report' = ValidateNetworkConfiguration(topo, traffic)
  /\ validated' = TRUE
  /\ links' = <<>>
  /\ UNCHANGED <<devices, lastInput, nbuilds, summary>>
  /\ UNCHANGED simvars

\* validator.validate_network_configuration(topology_data, traffic_analysis)
\* after the build, as main.py runs it
Validate ==
  /\ nbuilds > 0
  /\ ~validated
  /\ \E topo \in TopologyInputs, traffic \in TrafficInputs(links) :
       /\ args' = [topology |-> topo, traffic |-> traffic]
       /\ report' = ValidateNetworkConfiguration(topo, traffic)
  /\ validated' = TRUE
  /\ UNCHANGED <<devices, links, lastInput, nbuilds, summary>>
  /\ UNCHANGED simvars

\* the build of a new builder over a directory of many devices
BuildFleet ==
  /\ nbuilds = 0
  /\ \E input \in FleetInputs : DoBuild(input)

Next == Build \/ Validate

\* one analysis run: a new builder is built once and its graph validated
Spec == Init /\ [][Next]_vars

NextFleet == BuildFleet \/ Validate

\* one analysis run over a directory of many devices
SpecFleet == Init /\ [][NextFleet]_vars

NextRebuild == Rebuild

\* one builder object reused for several builds
SpecRebuild == Init /\ [][NextRebuild]_vars

-----------------------------------------------------------------------------
(* The Day-1 simulator *)

\* most devices a simulated topology file holds
MaxSimDevices == 2

\* most heartbeats one device thread logs
MaxHeartbeats == 1

\* the devices of an exported topology file, as load_topology reads them
SimCatalogue ==
  [i \in 1..3 |->
     LET config == <<CfgPC1, CfgR1, CfgS1>>[i]
     IN [device_id |-> config.device_name, device_type |-> config.device_type]]

\* the device entries of the exported files the simulator loads from
SimDirectories ==
  {SelectSeq(SimCatalogue, LAMBDA e : e.device_id \in T) :
     T \in {U \in SUBSET {SimCatalogue[i].device_id : i \in DOMAIN SimCatalogue} :
              U # {} /\ Cardinality(U) <= MaxSimDevices}}

\* load_topology on a new simulator
InitSimulation ==
  /\ devices = <<>>
  /\ links = <<>>
  /\ lastInput = <<>>
  /\ nbuilds = 0
  /\ validated = FALSE
  /\ args = NoArgs
  /\ report = InitialResults
  /\ summary = NoSummary
  /\ \E loaded \in SimDirectories : SimulatorOf(loaded)

\* log_event: the entry appended to the device's log
LogEvent(i, description) ==
  logs' = [logs EXCEPT ![i] = Append(@, description)]

\* the two events of the startup of a device of the given type
StartupEvents(device_type) ==
  CASE device_type = "router" -> <<"OSPF process starting", "Interfaces coming up">>
    [] device_type = "switch" -> <<"Spanning Tree Protocol enabled", "VLAN configuration loaded">>
    [] device_type = "endpoint" -> <<"Requesting IP address", "Learning gateway MAC address">>

\* run_day1_simulation, start loop: device.start_simulation() sets running
\* and starts the thread; after the last device the simulation sleeps
StartDevice ==
  /\ simPc \in {"loaded", "starting"}
  /\ running' = [running EXCEPT ![simIndex] = TRUE]
  /\ threadPc' = [threadPc EXCEPT ![simIndex] = "run"]
  /\ IF simIndex < Len(simDevices)
     THEN simPc' = "starting" /\ simIndex' = simIndex + 1
     ELSE simPc' = "sleeping" /\ simIndex' = 1
  /\ UNCHANGED <<simDevices, logs, simReport>>
  /\ UNCHANGED analysisvars

\* run_day1_simulation, stop loop, entered when time.sleep(duration_seconds)
\* returns: device.stop_simulation() clears running
StopDevice ==
  /\ simPc \in {"sleeping", "stopping"}
  /\ running' = [running EXCEPT ![simIndex] = FALSE]
  /\ IF simIndex < Len(simDevices)
     THEN simPc' = "stopping" /\ simIndex' = simIndex + 1
     ELSE simPc' = "joining" /\ simIndex' = 1
  /\ UNCHANGED <<simDevices, threadPc, logs, simReport>>
  /\ UNCHANGED analysisvars

\* run_day1_simulation, join loop: device.join(timeout=2) returns when the
\* thread has ended or when the two seconds are over, whichever comes first
JoinDevice ==
  /\ simPc = "joining"
  /\ IF simIndex < Len(simDevices)
     THEN simPc' = "joining" /\ simIndex' = simIndex + 1
     ELSE simPc' = "reporting" /\ simIndex' = 1
  /\ UNCHANGED <<simDevices, running, threadPc, logs, simReport>>
  /\ UNCHANGED analysisvars

\* generate_simulation_report: the logs as they are when the file is written
GenerateSimulationReport ==
  /\ simPc = "reporting"
  /\ simReport' = logs
  /\ simPc' = "completed"
  /\ UNCHANGED <<simDevices, simIndex, running, threadPc, logs>>
  /\ UNCHANGED analysisvars

\* NetworkDevice.run, boot: the first log entry, then the sleep of 1 to 3 s
Boot(i) ==
  /\ threadPc[i] = "run"
  /\ LogEvent(i, "Device starting up")
  /\ threadPc' = [threadPc EXCEPT ![i] = "booted"]
  /\ UNCHANGED <<simDevices, simPc, simIndex, running, simReport>>
  /\ UNCHANGED analysisvars

\* simulate_*_startup, first event, then the sleep of 1 s
StartupFirst(i) ==
  /\ threadPc[i] = "booted"
  /\ LogEvent(i, StartupEvents(simDevices[i].device_type)[1])
  /\ threadPc' = [threadPc EXCEPT ![i] = "startup"]
  /\ UNCHANGED <<simDevices, simPc, simIndex, running, simReport>>
  /\ UNCHANGED analysisvars

\* simulate_*_startup, second event
StartupSecond(i) ==
  /\ threadPc[i] = "startup"
  /\ LogEvent(i, StartupEvents(simDevices[i].device_type)[2])
  /\ threadPc' = [threadPc EXCEPT ![i] = "loop"]
  /\ UNCHANGED <<simDevices, simPc, simIndex, running, simReport>>
  /\ UNCHANGED analysisvars

\* while self.running: the thread enters the loop body or ends
CheckRunning(i) ==
  /\ threadPc[i] = "loop"
  /\ threadPc' = [threadPc EXCEPT ![i] = IF running[i] THEN "tasks" ELSE "ended"]
  /\ UNCHANGED <<simDevices, simPc, simIndex, running, logs, simReport>>
  /\ UNCHANGED analysisvars

\* number of heartbeats in a log
Heartbeats(log) == Len(SelectSeq(log, LAMBDA e : e = "Device operational"))

\* periodic_tasks and the sleep of 2 s: a heartbeat is logged or not
PeriodicTasks(i) ==
  /\ threadPc[i] = "tasks"
  /\ \/ Heartbeats(logs[i]) < MaxHeartbeats /\ LogEvent(i, "Device operational")
     \/ UNCHANGED logs
  /\ threadPc' = [threadPc EXCEPT ![i] = "loop"]
  /\ UNCHANGED <<simDevices, simPc, simIndex, running, simReport>>
  /\ UNCHANGED analysisvars

\* one step of the thread of device i
ThreadStep(i) ==
  \/ Boot(i)
  \/ StartupFirst(i)
  \/ StartupSecond(i)
  \/ CheckRunning(i)
  \/ PeriodicTasks(i)

DeviceThread == \E i \in DOMAIN simDevices : ThreadStep(i)

NextSimulation ==
  \/ StartDevice
  \/ StopDevice
  \/ JoinDevice
  \/ GenerateSimulationReport
  \/ DeviceThread

\* one run of run_day1_simulation with its device threads
SpecSimulation == InitSimulation /\ [][NextSimulation]_vars

\* the same with every started thread scheduled again and again and the
\* calling thread running on
FairSpecSimulation ==
  /\ SpecSimulation
  /\ \A i \in 1..MaxSimDevices : WF_vars(i \in DOMAIN simDevices /\ ThreadStep(i))
  /\ WF_vars(StartDevice \/ StopDevice \/ JoinDevice \/ GenerateSimulationReport)

-----------------------------------------------------------------------------
(* Claims about the topology builder *)

DeviceIds == {devices[i].key : i \in DOMAIN devices}

IsSubnetLink(l) == "subnet" \in DOMAIN l

\* the links of the table that carry the given subnet tag
LinksTagged(subnet) ==
  {i \in DOMAIN links : IsSubnetLink(links[i].val) /\ links[i].val.subnet = subnet}

\* C1: after a build, every subnet group of n interfaces has exactly
\* n*(n-1)/2 links tagged with its subnet in the link table.
C1_PairwiseLinksPerGroup ==
  nbuilds = 1 =>
    LET sd == SubnetDevices(devices)
    IN \A g \in DOMAIN sd :
         2 * Cardinality(LinksTagged(sd[g].key))
           = Len(sd[g].val) * (Len(sd[g].val) - 1)

\* what a new builder produces from the given directory alone
FreshBuild(input) == BuildTopology(<<>>, <<>>, input)

\* C2: after any sequence of builds on one builder, the device table and the
\* link table are those a new builder produces from the last directory alone.
C2_RebuildEqualsFreshBuild ==
  nbuilds >= 1 =>
    /\ devices = FreshBuild(lastInput).devices
    /\ links = FreshBuild(lastInput).links

\* C3: both endpoints of every link of the link table are ids of the device
\* table.
C3_NoDanglingLink ==
  \A i \in DOMAIN links :
    /\ links[i].val.device1.device_id \in DeviceIds
    /\ links[i].val.device2.device_id \in DeviceIds

\* a built table that holds a subnet link and a management link
C3_Witness ==
  /\ nbuilds = 1
  /\ \E i \in DOMAIN links : IsSubnetLink(links[i].val)
  /\ \E i \in DOMAIN links : ~IsSubnetLink(links[i].val)

\* some link of the table joins a and b, in either order
Linked(a, b) ==
  \E i \in DOMAIN links :
    LET l == links[i].val
    IN \/ l.device1.device_id = a /\ l.device2.device_id = b
       \/ l.device1.device_id = b /\ l.device2.device_id = a

DeviceType(cfg) == Get(cfg, "device_type", "None")

\* C4: after a build, every switch is linked to every other device whose
\* interface vlan ids intersect the switch's declared vlan ids.
C4_VlanOverlapIsLinked ==
  nbuilds = 1 =>
    \A s, d \in DOMAIN devices :
      (/\ DeviceType(devices[s].val) = "switch"
       /\ devices[d].key # devices[s].key
       /\ SharesVlanSegment(devices[d].val, SwitchVlans(devices[s].val)))
      => Linked(devices[s].key, devices[d].key)

\* the condition under which the code may attach switch s to device d
AttachAllowed(devs, s, d) ==
  \/ SharesVlanSegment(Lookup(devs, d), SwitchVlans(Lookup(devs, s)))
  \/ /\ DeviceType(Lookup(devs, d)) = "router"
     /\ LastChar(s) = LastChar(d)

\* C5: a build creates a management link from switch S to a device D that
\* shares no vlan with S only when D is a router whose id ends in the
\* character S's id ends in.
C5_FallbackOnlyToMatchingRouter ==
  [][\A i \in DOMAIN links' :
       (~HasKey(links, links'[i].key) /\ ~IsSubnetLink(links'[i].val))
       => /\ DeviceType(Lookup(devices', links'[i].val.device1.device_id)) = "switch"
          /\ AttachAllowed(devices', links'[i].val.device1.device_id,
                           links'[i].val.device2.device_id)]_vars

\* a management link that only the naming fallback explains
C5_Witness ==
  \E i \in DOMAIN links :
    LET l == links[i].val
    IN /\ ~IsSubnetLink(l)
       /\ ~SharesVlanSegment(Lookup(devices, l.device2.device_id),
                             SwitchVlans(Lookup(devices, l.device1.device_id)))
       /\ DeviceType(Lookup(devices, l.device2.device_id)) = "router"

\* C6: the link table never holds both "A-B" and "B-A" for two devices.
C6_NeverBothOrderings ==
  \A a, b \in DeviceIds :
    a # b => ~(HasKey(links, LinkId(a, b)) /\ HasKey(links, LinkId(b, a)))

\* default of _extract_bandwidth_from_interface
ParserDefaultBandwidth == 100000

\* the interface of the device table a link endpoint names
EndpointInterface(ep) ==
  LET ifs == Get(Lookup(devices, ep.device_id), "interfaces", <<>>)
  IN ifs[CHOOSE k \in DOMAIN ifs : ifs[k].name = ep.interface]

\* C7: the bandwidth of a subnet link is the minimum of its two interfaces'
\* bandwidths, an interface without a bandwidth field counting as 100000.
C7_MissingBandwidthIsParserDefault ==
  nbuilds = 1 =>
    \A i \in DOMAIN links :
      IsSubnetLink(links[i].val) =>
        links[i].val.bandwidth_mbps =
          Min(Get(EndpointInterface(links[i].val.device1), "bandwidth",
                  ParserDefaultBandwidth),
              Get(EndpointInterface(links[i].val.device2), "bandwidth",
                  ParserDefaultBandwidth))

-----------------------------------------------------------------------------
(* Claims about the validator engine *)

\* the entry of detailed_results for a rule
Detailed(rule_name) == Lookup(report.detailed_results, rule_name)

\* the rules whose entry has the given status
RulesWithStatus(status) ==
  {n \in DOMAIN RuleNames :
     HasKey(report.detailed_results, RuleNames[n])
     /\ Detailed(RuleNames[n]).status = status}

RECURSIVE IssueCount(_)
\* total number of issues of the entries of the given rules
IssueCount(S) ==
  IF S = {} THEN 0
  ELSE LET n == CHOOSE m \in S : TRUE
       IN Len(Detailed(RuleNames[n]).issues) + IssueCount(S \ {n})

\* C8: the report has exactly one entry per registered rule; a rule that
\* raised has status 'error' and is in none of the counts or issue lists, and
\* every other rule's entry is what that rule returns on its own.
C8_EveryRuleReportedErrorsIsolated ==
  validated =>
    /\ [i \in DOMAIN report.detailed_results |-> report.detailed_results[i].key]
         = RuleNames
    /\ \A n \in DOMAIN RuleNames :
         LET out == RuleOutcome(RuleNames[n], args.topology, args.traffic)
         IN IF out.raised
            THEN Detailed(RuleNames[n]).status = "error"
            ELSE Detailed(RuleNames[n]) =
                   [status |-> out.status, issues |-> out.issues,
                    suggestions |-> out.suggestions]
    /\ report.passed_checks = Cardinality(RulesWithStatus("pass"))
    /\ report.failed_checks = Cardinality(RulesWithStatus("fail"))
    /\ report.warnings = Cardinality(RulesWithStatus("warning"))
    /\ Len(report.critical_issues) = IssueCount(RulesWithStatus("fail"))
    /\ Len(report.warnings_list) = IssueCount(RulesWithStatus("warning"))

\* a validation in which a rule raised and a later rule still failed with
\* issues
C8_Witness ==
  /\ validated
  /\ \E n, m \in DOMAIN RuleNames :
       /\ n < m
       /\ n \in RulesWithStatus("error")
       /\ m \in RulesWithStatus("fail")
       /\ Detailed(RuleNames[m]).issues # <<>>

\* C9: when a built graph is validated without a traffic summary, the
\* capacity rule's entry has status 'pass' and no issues.
C9_CapacityPassesWithoutTraffic ==
  (validated /\ HasTables(args.topology) /\ ~TruthyTraffic(args.traffic)) =>
    /\ Detailed("capacity_validation").status = "pass"
    /\ "issues" \in DOMAIN Detailed("capacity_validation")
    /\ Detailed("capacity_validation").issues = <<>>

\* C10: overall_score is (passed*100 + warnings*50) / (evaluated*100) * 100
\* over the rules not in error status, 0 when none was evaluated, within
\* 0..100, and 70 for 6 passed, 2 warnings, 2 failed.
C10_ScoreOverEvaluatedRules ==
  /\ OverallScore(6, 2, 2).num = 70 * OverallScore(6, 2, 2).den
  /\ validated =>
       LET p == Cardinality(RulesWithStatus("pass"))
           f == Cardinality(RulesWithStatus("fail"))
           w == Cardinality(RulesWithStatus("warning"))
           s == report.overall_score
       IN /\ s.den > 0
          /\ 0 <= s.num /\ s.num <= 100 * s.den
          /\ p + f + w = 0 => s.num = 0
          /\ p + f + w > 0 =>
               s.num * ((p + f + w) * 100) = (p * 100 + w * 50) * 100 * s.den

\* a validation with a rule in error, a passed and a failed rule
C10_Witness ==
  /\ validated
  /\ RulesWithStatus("error") # {}
  /\ RulesWithStatus("pass") # {}
  /\ RulesWithStatus("fail") # {}
  /\ 0 < report.overall_score.num
  /\ report.overall_score.num < 100 * report.overall_score.den

\* a validation in which every rule raised
C10_NoRuleEvaluated ==
  /\ validated
  /\ Cardinality(RulesWithStatus("error")) = Len(RuleNames)

RECURSIVE IssuesOfStatus(_, _)
\* the issues of the entries with the given status, concatenated in
\* registration order from rule n on
IssuesOfStatus(status, n) ==
  IF n > Len(RuleNames) THEN <<>>
  ELSE (IF Detailed(RuleNames[n]).status = status
        THEN Detailed(RuleNames[n]).issues ELSE <<>>)
       \o IssuesOfStatus(status, n + 1)

RECURSIVE SuggestionsOfReturned(_)
\* the suggestions of the entries of the rules that returned, concatenated in
\* registration order from rule n on
SuggestionsOfReturned(n) ==
  IF n > Len(RuleNames) THEN <<>>
  ELSE (IF Detailed(RuleNames[n]).status # "error"
        THEN Detailed(RuleNames[n]).suggestions ELSE <<>>)
       \o SuggestionsOfReturned(n + 1)

\* C11: critical_issues is the concatenation, in registration order, of the
\* issues of exactly the rules with status 'fail', warnings_list that of the
\* rules with status 'warning', and optimization_suggestions that of the
\* suggestions of every rule that returned a result.
C11_IssueListsByStatus ==
  validated =>
    /\ report.critical_issues = IssuesOfStatus("fail", 1)
    /\ report.warnings_list = IssuesOfStatus("warning", 1)
    /\ report.optimization_suggestions = SuggestionsOfReturned(1)

\* a validation with two failed rules and two warning rules that all carry
\* issues, and a rule that raised
C11_Witness ==
  /\ validated
  /\ \E a, b \in RulesWithStatus("fail") :
       a # b /\ IssueCount({a}) > 0 /\ IssueCount({b}) > 0
  /\ \E a, b \in RulesWithStatus("warning") :
       a # b /\ IssueCount({a}) > 0 /\ IssueCount({b}) > 0
  /\ RulesWithStatus("error") # {}

-----------------------------------------------------------------------------
(* Claims about the validation rules *)

\* the rule of the given name returned a result for the validated graph
Returned(rule_name) ==
  /\ validated
  /\ HasTables(args.topology)
  /\ Detailed(rule_name).status # "error"

\* the issues of a rule's entry that carry the given field
IssuesWith(rule_name, field) ==
  LET issues == Detailed(rule_name).issues
  IN {issues[k] : k \in {m \in DOMAIN issues : field \in DOMAIN issues[m]}}

WanSubnet == <<10, 0, 0, 0>>
Lan10Subnet == <<192, 168, 10, 0>>
Lan20Subnet == <<192, 168, 20, 0>>

\* the graph of R1 (192.168.10.1/24) and R2 (192.168.20.1/24) joined by the
\* WAN subnet only was built and validated
TwoRouterScenario ==
  /\ Returned("redundancy_analysis")
  /\ Returned("gateway_validation")
  /\ Range(lastInput) = {CfgR1, CfgR2Lan20}

\* no missing-gateway issue for either LAN subnet
NoMissingLanGateway ==
  \A i \in IssuesWith("gateway_validation", "subnet") :
    i.severity = "critical" => i.subnet \notin {Lan10Subnet, Lan20Subnet}

\* the WAN link is reported as a single-point-of-failure link, a warning
WanLinkIsBridge ==
  \E i \in IssuesWith("redundancy_analysis", "link") :
    /\ i.link \in {LinkId(IdR1, IdR2), LinkId(IdR2, IdR1)}
    /\ i.severity = "warning"

\* C12 as stated: in the two-router scenario the redundancy result flags R1
\* and R2 as articulation points (critical) and the WAN link as a bridge
\* (warning), and the gateway result has no missing-gateway issue for the LANs.
C12_TwoRoutersBothFlagged ==
  TwoRouterScenario =>
    /\ \A id \in {IdR1, IdR2} :
         \E i \in IssuesWith("redundancy_analysis", "device") :
           i.device = id /\ i.severity = "critical"
    /\ WanLinkIsBridge
    /\ NoMissingLanGateway

\* C12 amended: in the two-router scenario the redundancy result flags no
\* device (neither router's removal disconnects the other), flags the WAN
\* link as a bridge (warning) and nothing else, so its status is 'warning';
\* the gateway result has no missing-gateway issue for either LAN subnet.
C12_TwoRoutersOnlyBridgeFlagged ==
  TwoRouterScenario =>
    /\ IssuesWith("redundancy_analysis", "device") = {}
    /\ WanLinkIsBridge
    /\ Len(Detailed("redundancy_analysis").issues) = 1
    /\ Detailed("redundancy_analysis").status = "warning"
    /\ NoMissingLanGateway

\* the two-router graph was built with its single WAN link and validated
C12_Witness ==
  /\ TwoRouterScenario
  /\ Len(links) = 1
  /\ links[1].val.subnet = WanSubnet

\* the validated graph: its devices, and its links as unordered pairs
GraphNodes == {args.topology.devices[i].key : i \in DOMAIN args.topology.devices}

GraphEdges ==
  {{args.topology.links[i].val.device1.device_id,
    args.topology.links[i].val.device2.device_id} :
     i \in DOMAIN args.topology.links}

TypeOf(id) == Lookup(args.topology.devices, id).device_type

\* a and b are joined by a path that avoids the devices of X and the edges of D
Joined(a, b, X, D) == b \in ReachFrom(GraphNodes \ X, GraphEdges \ D, {a})

\* v is a cut vertex: it separates two devices that are joined with it
CutVertex(v) ==
  \E a, b \in GraphNodes \ {v} :
    a # b /\ Joined(a, b, {}, {}) /\ ~Joined(a, b, {v}, {})

\* the link between a and b is the only connection of a and b
CutEdge(a, b) == a # b /\ {a, b} \in GraphEdges /\ ~Joined(a, b, {}, {{a, b}})

\* number of issues of a rule's entry that carry the given field
CountWith(rule_name, field) ==
  LET issues == Detailed(rule_name).issues
  IN Cardinality({m \in DOMAIN issues : field \in DOMAIN issues[m]})

\* C13: the redundancy rule reports as single-point-of-failure devices exactly
\* the articulation points, critical iff the device is a router, and as
\* single-point-of-failure links exactly the bridges (so the middle device and
\* both links of a chain); its status is fail iff some articulation point is a
\* router, else warning iff an issue exists, else pass.
C13_ArticulationPointsAndBridges ==
  Returned("redundancy_analysis") =>
    LET devs == IssuesWith("redundancy_analysis", "device")
        lnks == IssuesWith("redundancy_analysis", "link")
        cuts == {v \in GraphNodes : CutVertex(v)}
        brs == {e \in GraphEdges : \E a, b \in e : CutEdge(a, b)}
        status == Detailed("redundancy_analysis").status
    IN /\ {i.device : i \in devs} = cuts
       /\ CountWith("redundancy_analysis", "device") = Cardinality(cuts)
       /\ \A i \in devs : (i.severity = "critical") <=> (TypeOf(i.device) = "router")
       /\ \A i \in devs : i.severity \in {"critical", "warning"}
       /\ \A i \in lnks : i.severity = "warning"
       /\ \A i \in lnks : \E a, b \in GraphNodes :
            i.link = LinkId(a, b) /\ CutEdge(a, b)
       /\ \A e \in brs : \E i \in lnks, a, b \in e : a # b /\ i.link = LinkId(a, b)
       /\ CountWith("redundancy_analysis", "link") = Cardinality(brs)
       /\ Len(Detailed("redundancy_analysis").issues)
            = Cardinality(cuts) + Cardinality(brs)
       /\ (status = "fail") <=> (\E v \in cuts : TypeOf(v) = "router")
       /\ (status = "warning") <=>
            ((cuts # {} \/ brs # {}) /\ ~\E v \in cuts : TypeOf(v) = "router")
       /\ (status = "pass") <=> (cuts = {} /\ brs = {})

\* a validated chain A-B-C: B is reported and so are both links
C13_Witness ==
  /\ Returned("redundancy_analysis")
  /\ \E a, b, c \in GraphNodes :
       /\ GraphNodes = {a, b, c} /\ Cardinality({a, b, c}) = 3
       /\ GraphEdges = {{a, b}, {b, c}}
       /\ \E i \in IssuesWith("redundancy_analysis", "device") : i.device = b
       /\ CountWith("redundancy_analysis", "link") = 2

\* a validated graph whose only articulation point is a switch: status warning
C13_SwitchWitness ==
  /\ Returned("redundancy_analysis")
  /\ \E i \in IssuesWith("redundancy_analysis", "device") : TypeOf(i.device) = "switch"
  /\ Detailed("redundancy_analysis").status = "warning"

\* the addressed interfaces of the validated graph, as (device, interface) indices
AddressedInterfaces ==
  UNION {{<<d, k>> :
            k \in {j \in DOMAIN Get(args.topology.devices[d].val, "interfaces", <<>>) :
                     TruthyAddr(Get(args.topology.devices[d].val.interfaces[j],
                                    "ip_address", NoneAddr))}} :
           d \in DOMAIN args.topology.devices}

InterfaceAt(p) == args.topology.devices[p[1]].val.interfaces[p[2]]

\* the (ipAddress, vlanId) pair of an addressed interface
AddressKey(p) ==
  <<InterfaceAt(p).ip_address, Get(InterfaceAt(p), "vlan", DefaultVlanKey)>>

\* the addressed interfaces with the given (ipAddress, vlanId) pair
AddressGroup(key) == {p \in AddressedInterfaces : AddressKey(p) = key}

\* C14: the IP-conflict rule reports exactly one critical issue for each
\* (ipAddress, vlanId) group of more than one interface, listing every
\* interface of the group, and none for any other group; its status is fail
\* iff a conflict exists, else pass.
C14_OneConflictPerAddressGroup ==
  Returned("ip_conflicts") =>
    LET issues == Detailed("ip_conflicts").issues
        keys == {AddressKey(p) : p \in AddressedInterfaces}
        conflicting == {key \in keys : Cardinality(AddressGroup(key)) > 1}
    IN /\ Len(issues) = Cardinality(conflicting)
       /\ \A key \in conflicting :
            \E m \in DOMAIN issues :
              /\ <<issues[m].ip_address, issues[m].vlan>> = key
              /\ issues[m].severity = "critical"
              /\ Len(issues[m].conflicting_devices) = Cardinality(AddressGroup(key))
              /\ {<<c.device, c.interface>> : c \in Range(issues[m].conflicting_devices)}
                   = {<<args.topology.devices[p[1]].key, InterfaceAt(p).name>> :
                        p \in AddressGroup(key)}
       /\ Detailed("ip_conflicts").status
            = (IF conflicting # {} THEN "fail" ELSE "pass")

\* PC1 and PC3 hold the same address on vlan 10 and PC3 holds it on vlan 20
\* too: one issue naming both devices, none for vlan 20
C14_Witness ==
  /\ Returned("ip_conflicts")
  /\ Len(Detailed("ip_conflicts").issues) = 1
  /\ LET issue == Detailed("ip_conflicts").issues[1]
     IN /\ issue.vlan = 10
        /\ {c.device : c \in Range(issue.conflicting_devices)} = {IdPC1, IdPC3}
  /\ \E p \in AddressedInterfaces :
       AddressKey(p) = <<<<192, 168, 10, 5>>, 20>>

\* the endpoints of the validated graph from which no router can be reached
UnroutedEndpoints ==
  {e \in GraphNodes :
     /\ TypeOf(e) = "endpoint"
     /\ \A r \in GraphNodes : TypeOf(r) = "router" => ~Joined(e, r, {}, {})}

\* C15: the missing-components rule reports a critical issue for an endpoint
\* iff no router is reachable from it through the links, and its status is
\* fail iff some endpoint is so reported.
C15_UnroutedEndpointsReported ==
  Returned("missing_components") =>
    LET reported == IssuesWith("missing_components", "endpoint")
    IN /\ {i.endpoint : i \in reported} = UnroutedEndpoints
       /\ CountWith("missing_components", "endpoint") = Cardinality(UnroutedEndpoints)
       /\ \A i \in reported : i.severity = "critical"
       /\ (Detailed("missing_components").status = "fail")
            <=> (UnroutedEndpoints # {})

\* a validated graph with a router, an endpoint joined to it (not reported)
\* and an endpoint without any link (reported)
C15_Witness ==
  /\ Returned("missing_components")
  /\ \E e \in GraphNodes \ UnroutedEndpoints : TypeOf(e) = "endpoint"
  /\ \E i \in IssuesWith("missing_components", "endpoint") :
       \A e \in GraphEdges : i.endpoint \notin e

\* a validated graph with an endpoint that reaches a router only through a
\* switch and is not reported
C15_ThroughSwitch ==
  /\ Returned("missing_components")
  /\ \E e \in GraphNodes \ UnroutedEndpoints :
       /\ TypeOf(e) = "endpoint"
       /\ \A r \in GraphNodes : TypeOf(r) = "router" => {e, r} \notin GraphEdges

\* the router interfaces of the validated graph that belong to subnet s
RouterInterfacesIn(s) ==
  {p \in AddressedInterfaces :
     /\ TypeOf(args.topology.devices[p[1]].key) = "router"
     /\ TruthyAddr(Get(InterfaceAt(p), "subnet_mask", NoneAddr))
     /\ CalculateSubnet(InterfaceAt(p).ip_address, InterfaceAt(p).subnet_mask) = s}

\* the subnets some interface of the validated graph belongs to
InterfaceSubnets ==
  {CalculateSubnet(InterfaceAt(p).ip_address, InterfaceAt(p).subnet_mask) :
     p \in {q \in AddressedInterfaces :
              TruthyAddr(Get(InterfaceAt(q), "subnet_mask", NoneAddr))}}

\* the subnet tags of the links of the validated graph
LinkTags ==
  {args.topology.links[i].val.subnet :
     i \in {j \in DOMAIN args.topology.links :
              /\ "subnet" \in DOMAIN args.topology.links[j].val
              /\ TruthyAddr(args.topology.links[j].val.subnet)}}

\* C16: the gateway rule reports a critical issue for subnet s iff s tags a
\* link and no router interface belongs to s, and a warning issue for s iff
\* more than one router interface belongs to s; its status is fail iff a
\* critical issue exists, else warning iff an issue exists, else pass.
C16_GatewayIssuesAndStatus ==
  Returned("gateway_validation") =>
    LET issues == IssuesWith("gateway_validation", "subnet")
        critical == {i \in issues : i.severity = "critical"}
        warning == {i \in issues : i.severity = "warning"}
        status == Detailed("gateway_validation").status
    IN /\ issues = Range(Detailed("gateway_validation").issues)
       /\ critical \cup warning = issues
       /\ {i.subnet : i \in critical}
            = {s \in LinkTags : RouterInterfacesIn(s) = {}}
       /\ {i.subnet : i \in warning}
            = {s \in InterfaceSubnets : Cardinality(RouterInterfacesIn(s)) > 1}
       /\ (status = "fail") <=> (critical # {})
       /\ (status = "warning") <=> (critical = {} /\ issues # {})
       /\ (status = "pass") <=> (issues = {})

\* a validated graph with a subnet of two router interfaces and no subnet
\* without a gateway: the status is 'warning'
C16_Witness ==
  /\ Returned("gateway_validation")
  /\ \E s \in LinkTags : Cardinality(RouterInterfacesIn(s)) > 1
  /\ \A s \in LinkTags : RouterInterfacesIn(s) # {}
  /\ Detailed("gateway_validation").status = "warning"

\* a validated graph with a link on a subnet without any router interface
C16_MissingGateway ==
  /\ Returned("gateway_validation")
  /\ \E s \in LinkTags : RouterInterfacesIn(s) = {}
  /\ Detailed("gateway_validation").status = "fail"

\* the interface record a link endpoint names on its device
EndpointRecord(end) ==
  LET ifs == Get(Lookup(args.topology.devices, end.device_id), "interfaces", <<>>)
  IN ifs[CHOOSE k \in DOMAIN ifs : ifs[k].name = end.interface]

\* the links of the validated graph that carry a subnet tag and join two
\* interfaces of different MTU
MismatchedLinks ==
  {args.topology.links[i].key :
     i \in {j \in DOMAIN args.topology.links :
              LET l == args.topology.links[j].val
              IN /\ "subnet" \in DOMAIN l /\ TruthyAddr(l.subnet)
                 /\ Get(EndpointRecord(l.device1), "mtu", DefaultMtu)
                      # Get(EndpointRecord(l.device2), "mtu", DefaultMtu)}}

\* C17: the MTU rule reports a warning issue for a link iff the link has a
\* subnet tag and the MTUs of the two interfaces that form the link differ;
\* links without a tag give no issue; the status is warning iff an issue exists.
C17_MtuIssueIffLinkInterfacesDiffer ==
  Returned("mtu_mismatches") =>
    LET issues == IssuesWith("mtu_mismatches", "link_id")
    IN /\ {i.link_id : i \in issues} = MismatchedLinks
       /\ \A i \in issues : i.severity = "warning"
       /\ (Detailed("mtu_mismatches").status = "warning") <=> (MismatchedLinks # {})

\* the routers and switches of the validated graph and the links among them
InfraNodes == {v \in GraphNodes : TypeOf(v) \in {"router", "switch"}}

InfraEdges == {e \in GraphEdges : Cardinality(e) = 2 /\ e \subseteq InfraNodes}

\* C is the edge set of a simple cycle: connected, every device on it has
\* exactly two of its links
IsSimpleCycle(C) ==
  /\ C # {}
  /\ \A v \in UNION C : Cardinality({e \in C : v \in e}) = 2
  /\ \A v \in UNION C : ReachFrom(UNION C, C, {v}) = UNION C

\* the simple cycles of the router/switch graph
SimpleCycles == {C \in SUBSET InfraEdges : IsSimpleCycle(C)}

\* C18: the loop rule reports exactly one loop warning for each simple cycle
\* of three or more devices of the undirected router/switch graph and none
\* otherwise: a single link is no loop, an acyclic graph has no loop issue.
C18_OneWarningPerLoop ==
  Returned("network_loops") =>
    LET loops == IssuesWith("network_loops", "devices_in_loop")
    IN /\ CountWith("network_loops", "devices_in_loop") = Cardinality(SimpleCycles)
       /\ \A i \in loops :
            /\ i.severity = "warning"
            /\ Len(i.devices_in_loop) >= 3
            /\ \E C \in SimpleCycles : UNION C = Range(i.devices_in_loop)
       /\ \A C \in SimpleCycles :
            \E i \in loops : UNION C = Range(i.devices_in_loop)

\* the link entries of the traffic summary given to the validation
UtilizationEntries == Range(Get(args.traffic, "link_utilization", <<>>))

\* a validation that was given a traffic summary
WithTraffic == validated /\ TruthyTraffic(args.traffic)

\* C19: given a traffic summary, the capacity rule reports for each link
\* entry a critical issue iff its utilization is > 90, a warning issue iff it
\* is > 75 and <= 90 and nothing iff it is <= 75; its status is fail iff some
\* utilization is > 90, else warning iff some is > 75, else pass.
C19_CapacityThresholds ==
  WithTraffic =>
    LET entry == Detailed("capacity_validation")
        critical == {e \in UtilizationEntries : e.val.utilization_percent > 90}
        warning == {e \in UtilizationEntries :
                      /\ e.val.utilization_percent > 75
                      /\ e.val.utilization_percent <= 90}
    IN /\ entry.status # "error"
       /\ Len(entry.issues) = Cardinality(critical) + Cardinality(warning)
       /\ {<<i.link_id, i.severity>> : i \in Range(entry.issues)}
            = {<<e.key, "critical">> : e \in critical}
              \cup {<<e.key, "warning">> : e \in warning}
       /\ entry.status = (IF critical # {} THEN "fail"
                          ELSE IF warning # {} THEN "warning" ELSE "pass")

\* a validation whose traffic summary reports a link at exactly 90: one
\* warning issue, status 'warning'
C19_Witness ==
  /\ WithTraffic
  /\ \E e \in UtilizationEntries : e.val.utilization_percent = 90
  /\ \A e \in UtilizationEntries : e.val.utilization_percent <= 90
  /\ Detailed("capacity_validation").status = "warning"

\* a validation whose traffic summary reports a link at exactly 75: no issue
C19_AtWarningThreshold ==
  /\ WithTraffic
  /\ \E e \in UtilizationEntries : e.val.utilization_percent = 75
  /\ Detailed("capacity_validation").status = "pass"

\* the (device, interface) index pairs of the validated graph
AllInterfaces ==
  UNION {{<<d, k>> : k \in DOMAIN Get(args.topology.devices[d].val, "interfaces", <<>>)} :
           d \in DOMAIN args.topology.devices}

\* the vlan declarations of device d of the validated graph
Declarations(d) == Range(Get(args.topology.devices[d].val, "vlans", <<>>))

\* the interfaces that reference a vlan id their own device does not declare
UndeclaredReferences ==
  {p \in AllInterfaces :
     LET vlan == Get(InterfaceAt(p), "vlan", NoneInt)
     IN /\ vlan # NoneInt
        /\ \A v \in Declarations(p[1]) : v.id # vlan}

\* the names under which vlan id is declared on the devices
NamesOf(id) ==
  {v.name : v \in {w \in UNION {Declarations(d) : d \in DOMAIN args.topology.devices} :
                     w.id = id}}

\* the vlan ids declared under more than one name
AmbiguousVlans ==
  {v.id : v \in {w \in UNION {Declarations(d) : d \in DOMAIN args.topology.devices} :
                   Cardinality(NamesOf(w.id)) > 1}}

\* C20: the VLAN-consistency rule reports an issue for an interface iff it
\* references a vlan id declared nowhere on its own device, and an issue for a
\* vlan id iff the id is declared under more than one name across the
\* devices; its status is warning iff an issue exists, else pass.
C20_VlanIssues ==
  Returned("vlan_consistency") =>
    LET entry == Detailed("vlan_consistency")
        ifaces == IssuesWith("vlan_consistency", "interface")
        ids == IssuesWith("vlan_consistency", "vlan_id")
    IN /\ {<<i.device, i.interface>> : i \in ifaces}
            = {<<args.topology.devices[p[1]].key, InterfaceAt(p).name>> :
                 p \in UndeclaredReferences}
       /\ CountWith("vlan_consistency", "interface") = Cardinality(UndeclaredReferences)
       /\ {i.vlan_id : i \in ids} = AmbiguousVlans
       /\ CountWith("vlan_consistency", "vlan_id") = Cardinality(AmbiguousVlans)
       /\ Len(entry.issues)
            = Cardinality(UndeclaredReferences) + Cardinality(AmbiguousVlans)
       /\ entry.status = (IF UndeclaredReferences # {} \/ AmbiguousVlans # {}
                          THEN "warning" ELSE "pass")

\* a validated graph with an interface on a vlan its device declares (not
\* reported), one on a vlan only another device declares (reported) and a
\* vlan id declared under two names (reported)
C20_Witness ==
  /\ Returned("vlan_consistency")
  /\ AmbiguousVlans # {}
  /\ \E p \in UndeclaredReferences :
       \E d \in DOMAIN args.topology.devices :
         \E v \in Declarations(d) : v.id = InterfaceAt(p).vlan
  /\ \E p \in AllInterfaces \ UndeclaredReferences :
       Get(InterfaceAt(p), "vlan", NoneInt) # NoneInt
  /\ Detailed("vlan_consistency").status = "warning"

-----------------------------------------------------------------------------
(* Further claims about the built graph *)

\* C21: every subnet-derived link's bandwidth is the minimum of the
\* bandwidths of the two interfaces recorded as its endpoints.
C21_LinkBandwidthIsMinimum ==
  \A i \in DOMAIN links :
    IsSubnetLink(links[i].val) =>
      /\ links[i].val.bandwidth_mbps <= links[i].val.device1.bandwidth
      /\ links[i].val.bandwidth_mbps <= links[i].val.device2.bandwidth
      /\ links[i].val.bandwidth_mbps
           \in {links[i].val.device1.bandwidth, links[i].val.device2.bandwidth}

\* a built subnet link whose second endpoint has the smaller bandwidth
C21_Witness ==
  \E i \in DOMAIN links :
    /\ IsSubnetLink(links[i].val)
    /\ links[i].val.device2.bandwidth < links[i].val.device1.bandwidth
    /\ links[i].val.bandwidth_mbps = links[i].val.device2.bandwidth

\* the summary of the last build was computed and returned
Summarized == nbuilds > 0 /\ ~summary.raised

\* C22: in the summary of a built graph, routers, switches and endpoints are
\* the numbers of registered devices of that role and sum to total_devices,
\* total_links is the number of entries of the link table, and subnets is the
\* number of distinct subnet tags carried by links.
C22_SummaryCounts ==
  Summarized =>
    /\ summary.total_devices = Cardinality(DeviceIds)
    /\ summary.routers
         = Cardinality({id \in DeviceIds : Lookup(devices, id).device_type = "router"})
    /\ summary.switches
         = Cardinality({id \in DeviceIds : Lookup(devices, id).device_type = "switch"})
    /\ summary.endpoints
         = Cardinality({id \in DeviceIds : Lookup(devices, id).device_type = "endpoint"})
    /\ summary.routers + summary.switches + summary.endpoints = summary.total_devices
    /\ summary.total_links = Len(links)
    /\ summary.subnets
         = Cardinality({links[i].val.subnet :
                          i \in {j \in DOMAIN links : IsSubnetLink(links[j].val)}})

\* a summarized graph with a management link and two links on one subnet
C22_Witness ==
  /\ Summarized
  /\ \E i \in DOMAIN links : ~IsSubnetLink(links[i].val)
  /\ \E i, j \in DOMAIN links :
       /\ i # j /\ IsSubnetLink(links[i].val) /\ IsSubnetLink(links[j].val)
       /\ links[i].val.subnet = links[j].val.subnet
  /\ summary.routers > 0 /\ summary.switches > 0

-----------------------------------------------------------------------------
(* Claims about the validation as a whole *)

RuleOrders ==
  LET n == Len(RuleNames)
  IN {[i \in 1..n |-> RuleNames[n + 1 - i]],
      [i \in 1..n |-> RuleNames[((i + 2) % n) + 1]],
      [i \in 1..n |-> RuleNames[IF i % 2 = 1 THEN i + 1 ELSE i - 1]]}

RECURSIVE RunRulesIn(_, _, _, _, _)
\* the rule loop of the engine taken over the rules in the given order
RunRulesIn(order, vr, topo, traffic, n) ==
  IF n > Len(order) THEN vr
  ELSE LET out == RuleOutcome(order[n], topo, traffic)
       IN RunRulesIn(order,
                     IF out.raised THEN RecordError(vr, order[n], out)
                     ELSE RecordResult(vr, order[n], out),
                     topo, traffic, n + 1)

C25_BuildAndSummaryReturn == nbuilds > 0 => ~summary.raised

-----------------------------------------------------------------------------
(* Claims about the advisory rules *)

\* the rule's entry holds an issue with the given fixed text
Reports(rule_name, text) ==
  \E k \in DOMAIN Detailed(rule_name).issues :
    Detailed(rule_name).issues[k].issue.text = text

\* the routers of the validated graph
Routers == {d \in DOMAIN args.topology.devices : TypeOf(args.topology.devices[d].key) = "router"}

\* the protocol bindings of the routers, as (device, binding) index pairs
Bindings ==
  UNION {{<<d, k>> : k \in DOMAIN Get(args.topology.devices[d].val, "routing_protocols", <<>>)} :
           d \in Routers}

ProtocolOf(b) == args.topology.devices[b[1]].val.routing_protocols[b[2]].protocol

\* number of bindings of the given protocol
Usage(name) == Cardinality({b \in Bindings : ProtocolOf(b) = name})

BgpSuggested ==
  Reports("routing_optimization", "Network with {router_count} routers using primarily OSPF")

MixedProtocolsWarned ==
  Reports("routing_optimization", "Multiple routing protocols detected: {protocols}")

SingleRouterWarned ==
  Reports("routing_optimization", "Single router detected - no routing redundancy")

\* C26: the routing-optimization rule reports a redundancy warning iff
\* exactly one router exists, a mixed-protocol warning iff the routers use
\* more than one distinct protocol, and a BGP suggestion iff there are more
\* routers than the compared count and more OSPF than BGP bindings; its
\* status is pass iff none of the three is reported.
C26_RoutingOptimization ==
  Returned("routing_optimization") =>
    /\ SingleRouterWarned <=> Cardinality(Routers) = 1
    /\ MixedProtocolsWarned <=> Cardinality({ProtocolOf(b) : b \in Bindings}) > 1
    /\ BgpSuggested <=>
         /\ Cardinality(Routers) > LargeNetworkRouters
         /\ Usage("OSPF") > Usage("BGP")
    /\ Detailed("routing_optimization").status = "pass"
         <=> ~(SingleRouterWarned \/ MixedProtocolsWarned \/ BgpSuggested)
    /\ Detailed("routing_optimization").status \in {"pass", "warning"}

\* a fleet of one router more than the compared count, mostly OSPF, for which
\* BGP is suggested
C26_Witness ==
  /\ Returned("routing_optimization")
  /\ Cardinality(Routers) = LargeNetworkRouters + 1
  /\ Usage("OSPF") > Usage("BGP")
  /\ BgpSuggested
  /\ Detailed("routing_optimization").status = "warning"

\* a fleet of exactly the compared count, mostly OSPF, passes
C26_AtComparedCount ==
  /\ Returned("routing_optimization")
  /\ Cardinality(Routers) = LargeNetworkRouters
  /\ Usage("OSPF") > Usage("BGP")
  /\ Detailed("routing_optimization").status = "pass"

\* the vlans of the interfaces of the validated graph
VlansInUse ==
  {v \in {Get(InterfaceAt(p), "vlan", NoneInt) : p \in AllInterfaces} : TruthyInt(v)}

UnderSegmentationSuggested ==
  Reports("security_zones", "Network with {device_count} devices using only {vlan_count} VLANs")

DefaultVlanWarned ==
  Reports("security_zones", "Devices using default VLAN 1: {devices}")

\* C27: the security-zones rule reports an under-segmentation suggestion iff
\* the graph has more devices than the compared count and fewer distinct
\* vlans in use than the compared number, and a default-vlan warning iff some
\* interface is on vlan 1; its status is warning iff one of the two is
\* reported, else pass.
C27_SecurityZones ==
  Returned("security_zones") =>
    /\ UnderSegmentationSuggested <=>
         /\ Len(args.topology.devices) > SegmentationDevices
         /\ Cardinality(VlansInUse) < SegmentationVlans
    /\ DefaultVlanWarned <=>
         \E p \in AllInterfaces : Get(InterfaceAt(p), "vlan", NoneInt) = DefaultVlan
    /\ Detailed("security_zones").status
         = IF UnderSegmentationSuggested \/ DefaultVlanWarned THEN "warning" ELSE "pass"

\* a fleet of one device more than the compared count on two vlans, none the
\* default one, for which only the segmentation is suggested
C27_Witness ==
  /\ Returned("security_zones")
  /\ Len(args.topology.devices) = SegmentationDevices + 1
  /\ Cardinality(VlansInUse) = SegmentationVlans - 1
  /\ UnderSegmentationSuggested
  /\ ~DefaultVlanWarned
  /\ Detailed("security_zones").status = "warning"

\* a fleet of exactly the compared count on two vlans passes
C27_AtComparedCount ==
  /\ Returned("security_zones")
  /\ Len(args.topology.devices) = SegmentationDevices
  /\ Cardinality(VlansInUse) = SegmentationVlans - 1
  /\ ~DefaultVlanWarned
  /\ Detailed("security_zones").status = "pass"

-----------------------------------------------------------------------------
(* Claims about the aggregated report *)

\* issue['severity'] of an aggregated issue, "none" when it carries none
SeverityOf(issue) == Get(issue, "severity", "none")

\* every issue aggregated in critical_issues has severity critical
CriticalIssuesAreCritical ==
  \A k \in DOMAIN report.critical_issues :
    SeverityOf(report.critical_issues[k]) = "critical"

\* every issue aggregated in warnings_list has severity warning
WarningsAreWarnings ==
  \A k \in DOMAIN report.warnings_list :
    SeverityOf(report.warnings_list[k]) = "warning"

\* C28: in every validation report every issue in critical_issues has
\* severity critical and every issue in warnings_list has severity warning.
C28_SeverityMatchesList ==
  validated => CriticalIssuesAreCritical /\ WarningsAreWarnings

\* C29: in every validation report, with or without a traffic summary,
\* total_checks equals passed_checks + failed_checks + warnings.
C29_TotalAccountsForEveryCheck ==
  validated =>
    report.total_checks = report.passed_checks + report.failed_checks + report.warnings

-----------------------------------------------------------------------------
(* Claims about the simulator *)

\* stop_simulation has been called on every device
AllStopped == simPc \in {"joining", "reporting", "completed"}

\* every device thread has left its run loop
AllEnded == \A i \in DOMAIN simDevices : threadPc[i] = "ended"

\* C30: generate_simulation_report reads the device logs only after all
\* device threads have terminated, so that no device thread appends a log
\* entry while or after the report is built.
C30_ReportAfterThreadsEnded ==
  simPc \in {"reporting", "completed"} => AllEnded

\* what the written report holds is what the logs hold from then on
C30_ReportHoldsEveryEntry == simPc = "completed" => simReport = logs

\* once stop_simulation has been called on every device every device thread
\* eventually leaves its run loop
C30_ThreadsLeaveLoop == AllStopped ~> AllEnded

=============================================================================
